---------------------------- MODULE Spec2Model ----------------------------
(***************************************************************************)
(* A model of rgit: the loose object database, the object codecs, the     *)
(* tree composer and the reference resolver.                              *)
(*                                                                         *)
(* Text is a sequence of one-character strings (TLA+ strings cannot be    *)
(* taken apart); the bytes that have no printable form are the tokens     *)
(* NUL, SOH and DEL.  A raw byte of an Id is a two-character hex token.   *)
(* The .git directory is a map from .git-relative paths to file contents  *)
(* plus a set of directories.                                             *)
(***************************************************************************)
EXTENDS Integers, Sequences, FiniteSets, TLC

VARIABLES
    files,      \* .git-relative path -> content of the regular file there
    dirs,       \* the directories below .git (.git itself is <<>>)
    last,       \* the last operation called on the repository and its outcome
    stored,     \* history: the <<Id, object>> pairs store() returned Ok for
    obj,        \* codec: the object value handed to encode
    payload,    \* codec: its encoded payload
    decoded,    \* codec: the outcome of decoding the payload
    index,      \* composer: the index handed to index_to_tree
    emitted,    \* composer: the outcome of save_subtree on that index
    filelist,   \* composer: the outcome of load_tree_from_disk on the root Tree
    my_index,   \* index: the in-memory Index of commands::add
    indexfile,  \* index: the bytes of .git/index, None when there is no file
    worktree,   \* index: the files of the working tree, by repo-relative path
    ilast,      \* index: the last index operation and its outcome
    statArgs,   \* stat: the two StatInfo values handed to ==
    statOut,    \* stat: the outcome of the comparison
    diffL,      \* diff: the left file list
    diffR,      \* diff: the right file list
    lpos,       \* diff: how many items left.next() has handed out
    rpos,       \* diff: how many items right.next() has handed out
    diffs,      \* diff: the differences pushed so far
    diffDone,   \* diff: whether the loop has ended
    refArgs,    \* refname: the arguments of is_valid_refname
    refOut,     \* refname: its outcome
    hexArg,     \* id: the text handed to Id::from
    hexOut,     \* id: its outcome
    linkfs,     \* symlinks: the files and symbolic links below .git
    linkArg,    \* symlinks: the path handed to follow_symlink_refs
    linkOut,    \* symlinks: its outcome
    entName,    \* entry: the name of the file handed to new_from_file
    entMeta,    \* entry: the outcome of new_from_file
    entBytes,   \* entry: the bytes write_to_file writes for the entry
    loadArg,    \* tree load: the payload handed to Tree::load
    loadOut     \* tree load: its outcome

vars == <<files, dirs, last, stored, obj, payload, decoded, index, emitted, filelist,
          my_index, indexfile, worktree, ilast, statArgs, statOut,
          diffL, diffR, lpos, rpos, diffs, diffDone, refArgs, refOut, hexArg, hexOut,
          linkfs, linkArg, linkOut, entName, entMeta, entBytes, loadArg, loadOut>>

repoVars == <<files, dirs, last, stored>>
codecVars == <<obj, payload, decoded>>
treeVars == <<index, emitted, filelist>>
indexVars == <<my_index, indexfile, worktree, ilast>>
statVars == <<statArgs, statOut>>
diffVars == <<diffL, diffR, lpos, rpos, diffs, diffDone>>
refnameVars == <<refArgs, refOut>>
idVars == <<hexArg, hexOut>>
linkVars == <<linkfs, linkArg, linkOut>>
entVars == <<entName, entMeta, entBytes>>
loadVars == <<loadArg, loadOut>>
moreVars == <<linkVars, entVars, loadVars>>
pureVars == <<statVars, diffVars, refnameVars, idVars, moreVars>>

(***************************************************************************)
(* Text helpers (Rust's str and slice methods).                            *)
(***************************************************************************)

NUL == "NUL"
SOH == "SOH"
DEL == "DEL"

\* The printable ASCII characters, 0x20 .. 0x7e, in byte order.
Printable ==
    <<" ", "!", "\"", "#", "$", "%", "&", "'", "(", ")", "*", "+", ",", "-", ".", "/",
      "0", "1", "2", "3", "4", "5", "6", "7", "8", "9", ":", ";", "<", "=", ">", "?",
      "@", "A", "B", "C", "D", "E", "F", "G", "H", "I", "J", "K", "L", "M", "N", "O",
      "P", "Q", "R", "S", "T", "U", "V", "W", "X", "Y", "Z", "[", "\\", "]", "^", "_",
      "GRAVE", "a", "b", "c", "d", "e", "f", "g", "h", "i", "j", "k", "l", "m", "n", "o",
      "p", "q", "r", "s", "t", "u", "v", "w", "x", "y", "z", "{", "|", "}", "~">>

\* The byte value of a character.
OrdTable ==
    [c \in {Printable[i] : i \in 1..Len(Printable)} |->
        31 + (CHOOSE i \in 1..Len(Printable) : Printable[i] = c)]
Ord(c) ==
    CASE c = NUL -> 0
      [] c = SOH -> 1
      [] c = "\t" -> 9
      [] c = "\n" -> 10
      [] c = "\r" -> 13
      [] c = DEL -> 127
      [] OTHER -> OrdTable[c]

IsWhitespace(c) == c \in {" ", "\t", "\n", "\r"}

Min(a, b) == IF a < b THEN a ELSE b

Take(s, n) == SubSeq(s, 1, Min(n, Len(s)))
Drop(s, n) == SubSeq(s, n + 1, Len(s))

StartsWith(s, p) == Len(p) <= Len(s) /\ SubSeq(s, 1, Len(p)) = p
EndsWith(s, p) == Len(p) <= Len(s) /\ SubSeq(s, Len(s) - Len(p) + 1, Len(s)) = p
Contains(s, p) == \E i \in 1..(Len(s) - Len(p) + 1) : SubSeq(s, i, i + Len(p) - 1) = p

\* The position of the first (last) c in s, 0 when there is none.
IndexOf(s, c) ==
    LET at == {i \in 1..Len(s) : s[i] = c}
    IN  IF at = {} THEN 0 ELSE CHOOSE i \in at : \A j \in at : i <= j
LastIndexOf(s, c) ==
    LET at == {i \in 1..Len(s) : s[i] = c}
    IN  IF at = {} THEN 0 ELSE CHOOSE i \in at : \A j \in at : i >= j

RECURSIVE TrimStart(_)
TrimStart(s) == IF s # <<>> /\ IsWhitespace(Head(s)) THEN TrimStart(Tail(s)) ELSE s
RECURSIVE TrimEnd(_)
TrimEnd(s) ==
    IF s # <<>> /\ IsWhitespace(s[Len(s)]) THEN TrimEnd(SubSeq(s, 1, Len(s) - 1)) ELSE s
Trim(s) == TrimStart(TrimEnd(s))

\* str::split(c): the pieces between the separators, at least one piece.
RECURSIVE Split(_, _)
Split(s, c) ==
    LET i == IndexOf(s, c)
    IN  IF i = 0 THEN <<s>> ELSE <<SubSeq(s, 1, i - 1)>> \o Split(Drop(s, i), c)

RECURSIVE Concat(_)
Concat(ss) == IF ss = <<>> THEN <<>> ELSE Head(ss) \o Concat(Tail(ss))

RECURSIVE Rep(_, _)
Rep(s, n) == IF n = 0 THEN <<>> ELSE s \o Rep(s, n - 1)

\* Path::join and PathBuf::push of a relative path.
Join(a, b) == IF a = <<>> THEN b ELSE a \o <<"/">> \o b

(***************************************************************************)
(* Results of fallible operations: Result<T> and Option<T> are Ok(v) or    *)
(* Err(e); a panic (unwrap, expect, slice out of range) aborts the         *)
(* program and is the outcome Panic.                                       *)
(***************************************************************************)

Ok(v) == [kind |-> "Ok", val |-> v]
Err(e) == [kind |-> "Err", err |-> e]
Panic == [kind |-> "Panic"]
IsOk(r) == r.kind = "Ok"

(***************************************************************************)
(* num.rs: hex and octal literals.                                         *)
(***************************************************************************)

HexLower == <<"0", "1", "2", "3", "4", "5", "6", "7", "8", "9", "a", "b", "c", "d", "e", "f">>
HexUpper == <<"0", "1", "2", "3", "4", "5", "6", "7", "8", "9", "A", "B", "C", "D", "E", "F">>

HexDigits == {HexLower[i] : i \in 1..16} \cup {HexUpper[i] : i \in 1..16}
IsHexDigit(c) == c \in HexDigits

\* _decode_hex_digit: the value of a digit known to be one.
HexValue == [c \in HexDigits |-> (CHOOSE i \in 1..16 : HexLower[i] = c \/ HexUpper[i] = c) - 1]
DecodeHexDigit(c) == HexValue[c]

\* The 256 byte values as tokens, 0x00 first.
ByteTable ==
    <<
      "00", "01", "02", "03", "04", "05", "06", "07", "08", "09", "0a", "0b", "0c", "0d", "0e", "0f",
      "10", "11", "12", "13", "14", "15", "16", "17", "18", "19", "1a", "1b", "1c", "1d", "1e", "1f",
      "20", "21", "22", "23", "24", "25", "26", "27", "28", "29", "2a", "2b", "2c", "2d", "2e", "2f",
      "30", "31", "32", "33", "34", "35", "36", "37", "38", "39", "3a", "3b", "3c", "3d", "3e", "3f",
      "40", "41", "42", "43", "44", "45", "46", "47", "48", "49", "4a", "4b", "4c", "4d", "4e", "4f",
      "50", "51", "52", "53", "54", "55", "56", "57", "58", "59", "5a", "5b", "5c", "5d", "5e", "5f",
      "60", "61", "62", "63", "64", "65", "66", "67", "68", "69", "6a", "6b", "6c", "6d", "6e", "6f",
      "70", "71", "72", "73", "74", "75", "76", "77", "78", "79", "7a", "7b", "7c", "7d", "7e", "7f",
      "80", "81", "82", "83", "84", "85", "86", "87", "88", "89", "8a", "8b", "8c", "8d", "8e", "8f",
      "90", "91", "92", "93", "94", "95", "96", "97", "98", "99", "9a", "9b", "9c", "9d", "9e", "9f",
      "a0", "a1", "a2", "a3", "a4", "a5", "a6", "a7", "a8", "a9", "aa", "ab", "ac", "ad", "ae", "af",
      "b0", "b1", "b2", "b3", "b4", "b5", "b6", "b7", "b8", "b9", "ba", "bb", "bc", "bd", "be", "bf",
      "c0", "c1", "c2", "c3", "c4", "c5", "c6", "c7", "c8", "c9", "ca", "cb", "cc", "cd", "ce", "cf",
      "d0", "d1", "d2", "d3", "d4", "d5", "d6", "d7", "d8", "d9", "da", "db", "dc", "dd", "de", "df",
      "e0", "e1", "e2", "e3", "e4", "e5", "e6", "e7", "e8", "e9", "ea", "eb", "ec", "ed", "ee", "ef",
      "f0", "f1", "f2", "f3", "f4", "f5", "f6", "f7", "f8", "f9", "fa", "fb", "fc", "fd", "fe", "ff"
    >>
ByteTok(n) == ByteTable[n + 1]
ByteToks == {ByteTable[i] : i \in 1..256}
ByteIndex == [t \in ByteToks |-> (CHOOSE i \in 1..256 : ByteTable[i] = t) - 1]
ByteVal(t) == ByteIndex[t]

\* parse_hex: chunks_exact(2) drops an odd last character unread; any other
\* character that is no hex digit makes the result None.
ParseHex(s) ==
    LET n == Len(s) \div 2
    IN  IF \A i \in 1..(2 * n) : IsHexDigit(s[i])
        THEN Ok([i \in 1..n |->
                    ByteTok(16 * DecodeHexDigit(s[2 * i - 1]) + DecodeHexDigit(s[2 * i]))])
        ELSE Err("None")

OctDigits == <<"0", "1", "2", "3", "4", "5", "6", "7">>
DecDigits == <<"0", "1", "2", "3", "4", "5", "6", "7", "8", "9">>
IsOctDigit(c) == \E i \in 1..8 : OctDigits[i] = c
IsDecDigit(c) == \E i \in 1..10 : DecDigits[i] = c
DigitVal(c) == (CHOOSE i \in 1..10 : DecDigits[i] = c) - 1

\* parse_octal: the empty literal is 0.  (The modes of the model stay far
\* below 2^32, where the shift of the u32 starts to drop bits.)
RECURSIVE OctalValue(_, _)
OctalValue(s, acc) ==
    IF s = <<>> THEN acc ELSE OctalValue(Tail(s), acc * 8 + DigitVal(Head(s)))
ParseOctal(s) ==
    IF \A i \in 1..Len(s) : IsOctDigit(s[i]) THEN Ok(OctalValue(s, 0)) ELSE Err("None")

\* format!("{:o}") and format!("{}") of an unsigned number.
RECURSIVE FormatRadix(_, _)
FormatRadix(n, r) ==
    IF n < r THEN <<DecDigits[n + 1]>>
    ELSE FormatRadix(n \div r, r) \o <<DecDigits[(n % r) + 1]>>
FormatOctal(n) == FormatRadix(n, 8)
FormatDecimal(n) == FormatRadix(n, 10)

RECURSIVE DecimalValue(_, _)
DecimalValue(s, acc) ==
    IF s = <<>> THEN acc ELSE DecimalValue(Tail(s), acc * 10 + DigitVal(Head(s)))

(***************************************************************************)
(* objects.rs: Id.  An Id value is written as its 40 lower-case hex        *)
(* digits; IdBytes and IdOfBytes convert to and from the 20 raw bytes.     *)
(***************************************************************************)

IdLen == 20

\* Id::from: the hex literal must decode to exactly 20 bytes.
IdOfBytes(bs) ==
    Concat([i \in 1..Len(bs) |->
              <<HexLower[(ByteVal(bs[i]) \div 16) + 1], HexLower[(ByteVal(bs[i]) % 16) + 1]>>])
IdFrom(s) ==
    LET decoded_ == ParseHex(s)
    IN  IF IsOk(decoded_) /\ Len(decoded_.val) = IdLen
        THEN Ok(IdOfBytes(decoded_.val))
        ELSE Err("None")
\* id.0: the 20 raw bytes.
IdBytes(id) == ParseHex(id).val

(***************************************************************************)
(* objects.rs: the object values and their codecs.                         *)
(*   Blob   [tag |-> "blob", content]                                      *)
(*   Tree   [tag |-> "tree", files], a file being [mode, name, id]         *)
(*   Commit [tag |-> "commit", tree, parents, author, committer, message]  *)
(*   NameEntry [name, email, time], a time being [secs, nanos, offset]:    *)
(*   the instant in seconds and nanoseconds, the offset in minutes east.   *)
(***************************************************************************)

Blob(content) == [tag |-> "blob", content |-> content]
Tree(fs) == [tag |-> "tree", files |-> fs]

\* Blob::encode and Blob::load copy the bytes.
BlobEncode(b) == b.content
BlobLoad(content) == Ok(Blob(content))

\* chrono's "%s %z": the seconds since the epoch, then the sign and hhmm of
\* the offset.  Neither directive prints the nanoseconds.
TwoDigits(n) == <<DecDigits[(n \div 10) + 1], DecDigits[(n % 10) + 1]>>
Abs(n) == IF n < 0 THEN -n ELSE n
FormatTime(t) ==
    FormatDecimal(t.secs) \o <<" ">>
        \o <<IF t.offset < 0 THEN "-" ELSE "+">>
        \o TwoDigits(Abs(t.offset) \div 60) \o TwoDigits(Abs(t.offset) % 60)
\* DateTime::parse_from_str(.., "%s %z") of "<timestamp> <offs>".
ParseTime(timestamp, offs) ==
    IF /\ timestamp # <<>>
       /\ \A i \in 1..Len(timestamp) : IsDecDigit(timestamp[i])
       /\ Len(offs) = 5
       /\ offs[1] \in {"+", "-"}
       /\ \A i \in 2..5 : IsDecDigit(offs[i])
       /\ DecimalValue(SubSeq(offs, 4, 5), 0) < 60
    THEN Ok([secs |-> DecimalValue(timestamp, 0),
             nanos |-> 0,
             offset |-> (IF offs[1] = "-" THEN -1 ELSE 1)
                          * (60 * DecimalValue(SubSeq(offs, 2, 3), 0)
                               + DecimalValue(SubSeq(offs, 4, 5), 0))])
    ELSE Err("None")

\* NameEntry::encode
NameEntryEncode(e) == e.name \o <<" ", "<">> \o e.email \o <<">", " ">> \o FormatTime(e.time)

\* NameEntry::with_time: the text after the last space is the bracketed
\* email, the text before it the name.  The brackets are cut off by position,
\* which panics on a piece shorter than two bytes.
NameEntryWithTime(s, time) ==
    LET sp == LastIndexOf(s, " ")
        email_part == Drop(s, sp)
    IN  IF Len(email_part) < 2 THEN Panic
        ELSE IF sp = 0 THEN Err("None")
        ELSE Ok([name |-> SubSeq(s, 1, sp - 1),
                 email |-> SubSeq(email_part, 2, Len(email_part) - 1),
                 time |-> time])

\* NameEntry::from: rsplitn(3, ' ') gives the offset, the timestamp and the rest.
NameEntryFrom(s) ==
    LET sp1 == LastIndexOf(s, " ")
        offs == Drop(s, sp1)
        front == SubSeq(s, 1, sp1 - 1)
        sp2 == LastIndexOf(front, " ")
        timestamp == Drop(front, sp2)
        time == ParseTime(timestamp, offs)
    IN  IF sp1 = 0 THEN Err("None")
        ELSE IF ~IsOk(time) THEN Err("None")
        ELSE IF sp2 = 0 THEN Err("None")
        ELSE NameEntryWithTime(SubSeq(front, 1, sp2 - 1), time.val)

\* File::encode
FileEncode(f) == FormatOctal(f.mode) \o <<" ">> \o f.name \o <<NUL>> \o IdBytes(f.id)

\* Tree::encode
RECURSIVE TreeEncodeFiles(_)
TreeEncodeFiles(fs) ==
    IF fs = <<>> THEN <<>> ELSE FileEncode(Head(fs)) \o TreeEncodeFiles(Tail(fs))
TreeEncode(t) == TreeEncodeFiles(t.files)

\* Tree::load: records <octal mode> SP <name> NUL <20 raw bytes> until the
\* buffer is empty.  The 20 bytes are sliced without a length check.
RECURSIVE TreeLoadFrom(_, _)
TreeLoadFrom(rest, fs) ==
    IF rest = <<>> THEN Ok(Tree(fs))
    ELSE
        LET sp == IndexOf(rest, " ")
            mode == ParseOctal(IF sp = 0 THEN rest ELSE SubSeq(rest, 1, sp - 1))
            rest1 == Drop(rest, sp)
            nul == IndexOf(rest1, NUL)
            rest2 == Drop(rest1, nul)
        IN  IF ~IsOk(mode) THEN Err("corrupt Tree record mode")
            ELSE IF sp = 0 THEN Err("corrupt Tree structure")
            ELSE IF nul = 0 THEN Err("corrupt Tree structure")
            ELSE IF Len(rest2) < IdLen THEN Panic
            ELSE TreeLoadFrom(Drop(rest2, IdLen),
                              Append(fs, [mode |-> mode.val,
                                          name |-> SubSeq(rest1, 1, nul - 1),
                                          id |-> IdOfBytes(Take(rest2, IdLen))]))
TreeLoad(content) == TreeLoadFrom(content, <<>>)

\* Commit::encode
RECURSIVE CommitEncodeParents(_)
CommitEncodeParents(ps) ==
    IF ps = <<>> THEN <<>>
    ELSE <<"\n", "p", "a", "r", "e", "n", "t", " ">> \o Head(ps) \o CommitEncodeParents(Tail(ps))
CommitEncode(c) ==
    <<"t", "r", "e", "e", " ">> \o c.tree
        \o CommitEncodeParents(c.parents)
        \o <<"\n", "a", "u", "t", "h", "o", "r", " ">> \o NameEntryEncode(c.author)
        \o <<"\n", "c", "o", "m", "m", "i", "t", "t", "e", "r", " ">>
        \o NameEntryEncode(c.committer)
        \o <<"\n", "\n">> \o c.message

\* Commit::load: header lines "<key> <rest>" up to the first empty line, the
\* message after it.  hdr collects tree, parents, author and committer.
NoHeader == [tree |-> Err("None"), parents |-> <<>>, author |-> Err("None"),
             committer |-> Err("None")]
RECURSIVE CommitLoadFrom(_, _)
CommitLoadFrom(slice, hdr) ==
    IF slice = <<>> THEN Err("hit unexpected EOF reading commit metadata")
    ELSE
        LET nl == IndexOf(slice, "\n")
            line == IF nl = 0 THEN slice ELSE SubSeq(slice, 1, nl)
            after == IF nl = 0 THEN <<>> ELSE Drop(slice, nl)
            trimmed == LET RECURSIVE T(_)
                           T(s) == IF s # <<>> /\ s[Len(s)] \in {"\n", "\r"}
                                   THEN T(SubSeq(s, 1, Len(s) - 1)) ELSE s
                       IN  T(line)
            sp == IndexOf(trimmed, " ")
            typ == SubSeq(trimmed, 1, sp - 1)
            rest == Drop(trimmed, sp)
        IN  IF trimmed = <<>> THEN
                IF ~IsOk(hdr.tree) THEN Err("tree missing when parsing commit header")
                ELSE IF ~IsOk(hdr.author) THEN Err("author missing when parsing commit header")
                ELSE IF ~IsOk(hdr.committer)
                     THEN Err("committer missing when parsing commit header")
                ELSE Ok([tag |-> "commit",
                         tree |-> hdr.tree.val,
                         parents |-> hdr.parents,
                         author |-> hdr.author.val,
                         committer |-> hdr.committer.val,
                         message |-> after])
            ELSE IF sp = 0 THEN Err("got confused reading commit metadata")
            ELSE IF typ = <<"t", "r", "e", "e">> THEN
                IF IsOk(IdFrom(rest))
                THEN CommitLoadFrom(after, [hdr EXCEPT !.tree = IdFrom(rest)])
                ELSE Err("tree was not an id")
            ELSE IF typ = <<"p", "a", "r", "e", "n", "t">> THEN
                IF IsOk(IdFrom(rest))
                THEN CommitLoadFrom(after,
                                    [hdr EXCEPT !.parents = Append(@, IdFrom(rest).val)])
                ELSE Err("parent was not an id")
            ELSE IF typ = <<"a", "u", "t", "h", "o", "r">> THEN
                LET e == NameEntryFrom(rest)
                IN  IF e.kind = "Panic" THEN Panic
                    ELSE IF IsOk(e) THEN CommitLoadFrom(after, [hdr EXCEPT !.author = e])
                    ELSE Err("failed to parse author")
            ELSE IF typ = <<"c", "o", "m", "m", "i", "t", "t", "e", "r">> THEN
                LET e == NameEntryFrom(rest)
                IN  IF e.kind = "Panic" THEN Panic
                    ELSE IF IsOk(e) THEN CommitLoadFrom(after, [hdr EXCEPT !.committer = e])
                    ELSE Err("failed to parse committer")
            ELSE CommitLoadFrom(after, hdr)
CommitLoad(content) == CommitLoadFrom(content, NoHeader)

\* GitObject::tag and GitObject::encode of the three kinds.
ObjectTag(o) ==
    CASE o.tag = "blob" -> <<"b", "l", "o", "b">>
      [] o.tag = "tree" -> <<"t", "r", "e", "e">>
      [] o.tag = "commit" -> <<"c", "o", "m", "m", "i", "t">>
ObjectEncode(o) ==
    CASE o.tag = "blob" -> BlobEncode(o)
      [] o.tag = "tree" -> TreeEncode(o)
      [] o.tag = "commit" -> CommitEncode(o)

\* The decoder of the payload of an object of the given kind.
ObjectLoad(tag, content) ==
    CASE tag = "blob" -> BlobLoad(content)
      [] tag = "tree" -> TreeLoad(content)
      [] tag = "commit" -> CommitLoad(content)

\* Object::parse: <type> SP <size> NUL <payload>; the size is not read.
ObjectParse(buf) ==
    LET nul == IndexOf(buf, NUL)
        header == SubSeq(buf, 1, nul - 1)
        content == Drop(buf, nul)
        sp == IndexOf(header, " ")
        objtype == IF sp = 0 THEN header ELSE SubSeq(header, 1, sp - 1)
    IN  IF nul = 0 THEN Err("Missing null termination after object size")
        ELSE IF objtype = <<"t", "r", "e", "e">> THEN TreeLoad(content)
        ELSE IF objtype = <<"b", "l", "o", "b">> THEN BlobLoad(content)
        ELSE IF objtype = <<"c", "o", "m", "m", "i", "t">> THEN CommitLoad(content)
        ELSE Err("unsupported object type")

\* The bytes that are hashed and compressed: <tag> SP <size> NUL <payload>.
PreImage(o) ==
    ObjectTag(o) \o <<" ">> \o FormatDecimal(Len(ObjectEncode(o))) \o <<NUL>> \o ObjectEncode(o)

(***************************************************************************)
(* The objects and Ids of the model.  SHA-1 is a fixed function of the     *)
(* hashed bytes: on the four blobs below it is given by a table (Ids that  *)
(* share their first digits, and Ids whose digits repeat), on every other  *)
(* input by a digest folded from the bytes.                                *)
(***************************************************************************)

IdA == <<"a", "b", "c", "d">> \o Rep(<<"0">>, 36)
IdB == <<"a", "b", "c", "d">> \o Rep(<<"1">>, 36)
IdC == Rep(<<"a", "b">>, 20)
IdD == Rep(<<"a", "b">>, 3) \o Rep(<<"c">>, 34)

BlobA == Blob(<<"h", "e", "l", "l", "o">>)
BlobB == Blob(<<"w", "o", "r", "l", "d", "\n">>)
BlobC == Blob(<<>>)
BlobD == Blob(<<"x", NUL, "y">>)

KnownObjects == <<BlobA, BlobB, BlobC, BlobD>>
KnownIds == <<IdA, IdB, IdC, IdD>>

TokVal(t) == IF t \in ByteToks THEN 256 + ByteVal(t) ELSE Ord(t)
\* The digest adds up the bytes, each weighted by its position.
RECURSIVE WeightedSum(_, _, _)
WeightedSum(s, lo, hi) ==
    IF lo > hi THEN 0
    ELSE IF lo = hi THEN TokVal(s[lo]) * (1 + ((lo * 7919) % 1048573))
    ELSE (WeightedSum(s, lo, (lo + hi) \div 2)
            + WeightedSum(s, (lo + hi) \div 2 + 1, hi)) % 16777216
Fold(s, h) == (h + WeightedSum(s, 1, Len(s))) % 16777216
Digest(pre) ==
    LET h == Fold(pre, 7)
    IN  Rep(<<"f">>, 34)
          \o [i \in 1..6 |-> HexLower[((h \div (CASE i = 1 -> 1048576 [] i = 2 -> 65536
                                                 [] i = 3 -> 4096 [] i = 4 -> 256
                                                 [] i = 5 -> 16 [] i = 6 -> 1)) % 16) + 1]]
Sha1(pre) ==
    IF \E k \in 1..Len(KnownObjects) : PreImage(KnownObjects[k]) = pre
    THEN KnownIds[CHOOSE k \in 1..Len(KnownObjects) : PreImage(KnownObjects[k]) = pre]
    ELSE Digest(pre)

\* Object::prepare_store: the Id and the compressed bytes of an object.
PrepareStore(o) ==
    [id |-> Sha1(PreImage(o)), content |-> [kind |-> "zlib", data |-> PreImage(o)]]

(***************************************************************************)
(* The .git directory.  A file's content is text ([kind |-> "text"]) or a  *)
(* zlib stream of some bytes ([kind |-> "zlib"]).  Paths are relative to   *)
(* .git; the operating system skips empty and "." components, and a path   *)
(* that ends in a separator names a directory only.  An absolute path or   *)
(* one with ".." leaves .git, where nothing is assumed to exist.           *)
(***************************************************************************)

TextFile(s) == [kind |-> "text", data |-> s]

Pieces(p) == Split(p, "/")
LeavesRepo(p) ==
    LET ps == Pieces(p)
    IN  p # <<>> /\ (Head(p) = "/" \/ \E i \in 1..Len(ps) : ps[i] = <<".", ".">>)
MustBeDir(p) == p # <<>> /\ (p[Len(p)] = "/" \/ EndsWith(p, <<"/", ".">>) \/ p = <<".">>)
RECURSIVE JoinAll(_)
JoinAll(cs) ==
    IF cs = <<>> THEN <<>>
    ELSE IF Len(cs) = 1 THEN cs[1]
    ELSE Head(cs) \o <<"/">> \o JoinAll(Tail(cs))
IsRealComponent(c) == c # <<>> /\ c # <<".">>
Components(p) == SelectSeq(Pieces(p), IsRealComponent)
FsPath(p) == JoinAll(Components(p))
Parent(p) == LET cs == Components(p) IN JoinAll(SubSeq(cs, 1, Len(cs) - 1))
FileName(p) == LET cs == Components(p) IN cs[Len(cs)]

IsDir(p) == ~LeavesRepo(p) /\ FsPath(p) \in dirs
IsFile(p) == ~LeavesRepo(p) /\ ~MustBeDir(p) /\ FsPath(p) \in DOMAIN files
Exists(p) == IsDir(p) \/ IsFile(p)

\* fs::read
FsRead(p) == IF IsFile(p) THEN Ok(files[FsPath(p)]) ELSE Err("io")
\* fs::write succeeds when the parent directory exists and the path is not
\* a directory; the file is created or replaced.
CanWrite(p, ds) ==
    /\ ~LeavesRepo(p) /\ ~MustBeDir(p)
    /\ Components(p) # <<>>
    /\ FsPath(p) \notin ds
    /\ Parent(p) \in ds
Put(fs, p, c) == [q \in DOMAIN fs \cup {FsPath(p)} |-> IF q = FsPath(p) THEN c ELSE fs[q]]

\* fs::create_dir_all: the directory and its ancestors.
RECURSIVE Ancestors(_)
Ancestors(d) == IF d = <<>> THEN {<<>>} ELSE {d} \cup Ancestors(Parent(d))

\* The names read_dir lists in a directory.
DirEntries(d) == {FileName(p) : p \in {q \in (DOMAIN files \cup dirs) : q # <<>> /\ Parent(q) = d}}

sHEAD == <<"H", "E", "A", "D">>
sRefs == <<"r", "e", "f", "s">>
sTags == <<"t", "a", "g", "s">>
sHeads == <<"h", "e", "a", "d", "s">>
sRemotes == <<"r", "e", "m", "o", "t", "e", "s">>
sObjects == <<"o", "b", "j", "e", "c", "t", "s">>
sMaster == <<"m", "a", "s", "t", "e", "r">>
sRefsHeads == Join(sRefs, sHeads)
sRefsTags == Join(sRefs, sTags)
sRefsRemotes == Join(sRefs, sRemotes)
sRefsHeadsMaster == Join(sRefsHeads, sMaster)
sRefPrefix == <<"r", "e", "f", ":">>

(***************************************************************************)
(* objects.rs: Repo.                                                       *)
(***************************************************************************)

\* Repo::init: the skeleton and HEAD, "ref: refs/heads/master".
InitDirs == {<<>>, sRefs, sRefsHeads, sObjects}
InitHEAD == TextFile(sRefPrefix \o <<" ">> \o sRefsHeadsMaster)

\* Repo::path_for_object
PathForObject(id) == Join(Join(sObjects, SubSeq(id, 1, 2)), Drop(id, 2))

\* Repo::has_id
HasId(id) == Exists(PathForObject(id))

\* A store that writes the file whether or not the path of the Id exists.
StoreAlways(fs, ds, o) ==
    LET p == PrepareStore(o)
        path == PathForObject(p.id)
    IN  IF path \in ds \/ Ancestors(Parent(path)) \cap DOMAIN fs # {}
        THEN [out |-> Err("io"), files |-> fs, dirs |-> ds]
        ELSE [out |-> Ok(p.id), files |-> Put(fs, path, p.content),
              dirs |-> ds \cup Ancestors(Parent(path))]

\* A store that refuses an object whose path exists.
StoreOnce(fs, ds, o) ==
    LET r == StoreAlways(fs, ds, o)
        path == PathForObject(PrepareStore(o).id)
    IN  IF path \in DOMAIN fs \/ path \in ds
        THEN [out |-> Err("exists"), files |-> fs, dirs |-> ds]
        ELSE r

\* Repo::store on the directory (fs, ds): nothing is written when the path
\* of the Id exists; else the parent directories are made and the file is
\* written.
StoreIn(fs, ds, o) ==
    LET p == PrepareStore(o)
        path == PathForObject(p.id)
    IN  IF path \in DOMAIN fs \/ path \in ds
        THEN [out |-> Ok(p.id), files |-> fs, dirs |-> ds]
        ELSE IF Ancestors(Parent(path)) \cap DOMAIN fs # {}
        THEN [out |-> Err("io"), files |-> fs, dirs |-> ds]
        ELSE [out |-> Ok(p.id), files |-> Put(fs, path, p.content),
              dirs |-> ds \cup Ancestors(Parent(path))]

\* Repo::open: read the file, inflate it, parse the object.
Open(id) ==
    LET f == FsRead(PathForObject(id))
    IN  IF ~IsOk(f) THEN Err("Failed to open object on disk")
        ELSE IF f.val.kind # "zlib" THEN Err("Failed reading decompressed stream")
        ELSE ObjectParse(f.val.data)

\* Repo::head: the Id in HEAD, None when HEAD holds something else.
RepoHead ==
    LET f == FsRead(sHEAD)
    IN  IF ~IsOk(f) \/ f.val.kind # "text" THEN Err("io") ELSE IdFrom(Trim(f.val.data))

(***************************************************************************)
(* rev.rs: refname validation, the resolver and update_ref.                *)
(***************************************************************************)

\* The depth to which find_refname's recursion is unrolled; a lookup that
\* recurses deeper does not return.
MaxStack == 4

Diverges == [kind |-> "Diverges"]

\* is_valid_sha1
IsValidSha1(s) == Len(s) >= 4 /\ Len(s) <= 20 /\ \A i \in 1..Len(s) : IsHexDigit(s[i])

\* parse_id_from: Id, Symref or None for the file at a path.
ParseIdFrom(p) ==
    LET f == FsRead(p)
    IN  IF ~IsOk(f) \/ f.val.kind # "text" THEN [kind |-> "None"]
        ELSE IF StartsWith(f.val.data, sRefPrefix)
        THEN [kind |-> "Symref", target |-> Trim(Drop(f.val.data, 4))]
        ELSE LET id == IdFrom(TrimEnd(f.val.data))
             IN  IF IsOk(id) THEN [kind |-> "Id", id |-> id.val] ELSE [kind |-> "None"]

\* is_valid_refname
ForbiddenChars == {" ", "~", "^", ":", "?", "*", "[", "\\"}
\* A component check without the rule for a trailing ".lock".
IsValidPartLockAllowed(part) ==
    /\ part # <<>>
    /\ ~StartsWith(part, <<".">>)
    /\ ~EndsWith(part, <<".">>)
    /\ ~Contains(part, <<".", ".">>)
    /\ ~Contains(part, <<"@", "{">>)
    /\ \A i \in 1..Len(part) :
          ~(Ord(part[i]) < 32 \/ Ord(part[i]) = 127 \/ part[i] \in ForbiddenChars)
IsValidPart(part) ==
    /\ part # <<>>
    /\ ~StartsWith(part, <<".">>)
    /\ ~EndsWith(part, <<".">>)
    /\ ~EndsWith(part, <<".", "l", "o", "c", "k">>)
    /\ ~Contains(part, <<".", ".">>)
    /\ ~Contains(part, <<"@", "{">>)
    /\ \A i \in 1..Len(part) :
          ~(Ord(part[i]) < 32 \/ Ord(part[i]) = 127 \/ part[i] \in ForbiddenChars)
IsValidRefname(name, allow_onelevel) ==
    LET parts == Split(name, "/")
    IN  /\ name # <<"@">>
        /\ \A i \in 1..Len(parts) : IsValidPart(parts[i])
        /\ ~(Len(parts) = 1 /\ ~allow_onelevel)

\* to_git_path: the components of the path joined by "/".
ToGitPath(p) == IF p # <<>> /\ Head(p) = "/" THEN <<"/">> \o FsPath(p) ELSE FsPath(p)

\* follow_symlink_refs.  Every ref file of the model is a regular file, so
\* the loop returns in its first iteration.
FollowSymlinkRefs(p) ==
    IF ~IsValidRefname(ToGitPath(p), TRUE) THEN Err("InvalidSymlinkRef") ELSE Ok(p)

\* A lookup order that puts refs/heads before refs/tags.
TryPathsHeadsFirst == <<<<>>, sRefs, sRefsHeads, sRefsTags, sRefsRemotes>>

\* find_refname: the places a ref is looked for, in order.
TryPaths == <<<<>>, sRefs, sRefsTags, sRefsHeads, sRefsRemotes>>

\* PathBuf::push: an absolute path replaces the path it is pushed on.
Push(a, b) == IF b # <<>> /\ Head(b) = "/" THEN b ELSE IF b = <<>> THEN a \o <<"/">> ELSE Join(a, b)

RECURSIVE FindRefnameFrom(_, _, _)
FindRefnameFrom(rev, i, fuel) ==
    IF i > Len(TryPaths)
    THEN \* special case: refs/remotes/<refname>/HEAD
         LET r == ParseIdFrom(Push(Push(sRefsRemotes, rev), sHEAD))
         IN  IF r.kind = "Id" THEN Ok(r.id) ELSE Err("None")
    ELSE LET r == ParseIdFrom(Push(TryPaths[i], rev))
         IN  CASE r.kind = "Id" -> Ok(r.id)
               [] r.kind = "Symref" ->
                    IF rev = sHEAD
                    THEN IF fuel = 0 THEN Diverges
                         ELSE FindRefnameFrom(r.target, 1, fuel - 1)
                    ELSE Err("None")
               [] OTHER -> FindRefnameFrom(rev, i + 1, fuel)
FindRefname(rev) == FindRefnameFrom(rev, 1, MaxStack)

\* parse: abbreviated object name first, then <refname>, then "@".
PrefixMatches(rev) == {n \in DirEntries(Join(sObjects, Take(rev, 2))) : StartsWith(n, rev)}
Parse(rev) ==
    LET m == IF IsValidSha1(rev) /\ IsDir(Join(sObjects, Take(rev, 2)))
             THEN PrefixMatches(rev) ELSE {}
        r == FindRefname(rev)
    IN  IF Cardinality(m) >= 2 THEN Err("Ambiguous")
        ELSE IF Cardinality(m) = 1
        THEN LET ret == IdFrom(Take(rev, 2) \o (CHOOSE n \in m : TRUE))
             IN  IF IsOk(ret) THEN ret ELSE Err("invalid id filename")
        ELSE IF r.kind = "Ok" THEN r
        ELSE IF r.kind = "Diverges" THEN Diverges
        ELSE IF rev = <<"@">>
        THEN IF IsOk(RepoHead) THEN RepoHead ELSE Err("head")
        ELSE Err("Dangling")

\* Path equality compares components: "HEAD/" and "HEAD/." equal "HEAD".
PathIsHEAD(p) ==
    LET ps == Pieces(p)
    IN  ps[1] = sHEAD /\ \A i \in 2..Len(ps) : ps[i] \in {<<>>, <<".">>}

\* update_ref's candidate locations; the sixth, <ref> followed by the pushed
\* "/HEAD", is the absolute path /HEAD.
UpdateTryPaths(target_ref) ==
    <<Push(<<>>, target_ref), Push(sRefs, target_ref), Push(sRefsTags, target_ref),
      Push(sRefsHeads, target_ref), Push(sRefsRemotes, target_ref),
      Push(Push(sRefsRemotes, target_ref), <<"/">> \o sHEAD)>>

\* A target that is never redirected through the symref in HEAD.
UpdateRefTargetAsGiven(target_ref) == Ok(target_ref)

\* update_ref: the outcome and the files after it.
UpdateRefTarget(target_ref) ==
    IF PathIsHEAD(target_ref)
    THEN IF ~Exists(sHEAD) THEN Err("io")
         ELSE LET r == ParseIdFrom(sHEAD)
              IN  IF r.kind = "Symref" THEN Ok(r.target) ELSE Ok(target_ref)
    ELSE Ok(target_ref)
UpdateRefWrite(p, new_id) ==
    IF CanWrite(p, dirs)
    THEN [out |-> Ok(p), files |-> Put(files, p, TextFile(new_id))]
    ELSE [out |-> Err("io"), files |-> files]
UpdateRef(target_ref, new_id) ==
    LET t == UpdateRefTarget(target_ref)
    IN  IF ~IsOk(t) THEN [out |-> t, files |-> files]
        ELSE IF ~IsValidRefname(t.val, TRUE) THEN [out |-> Err("Invalid"), files |-> files]
        ELSE LET tries == UpdateTryPaths(t.val)
                 hits == {i \in 1..Len(tries) : Exists(tries[i])}
             IN  IF hits = {} THEN UpdateRefWrite(t.val, new_id)
                 ELSE LET first == tries[CHOOSE i \in hits : \A j \in hits : i <= j]
                          target == FollowSymlinkRefs(first)
                      IN  IF ~IsOk(target) THEN [out |-> target, files |-> files]
                          ELSE UpdateRefWrite(target.val, new_id)

(***************************************************************************)
(* The repository machine: store, open, set_head, update_ref and rev_parse *)
(* called in any order on a .git directory.                                *)
(***************************************************************************)

sAbab == <<"a", "b", "a", "b">>
sAbcd == <<"a", "b", "c", "d">>
sLock == <<"m", ".", "l", "o", "c", "k">>
sHEADSlash == sHEAD \o <<"/">>
sRefsTagsMaster == Join(sRefsTags, sMaster)

\* The refnames handed to update_ref.
RefNames == {sHEAD, sHEADSlash, sMaster, sAbab, sLock, PathForObject(IdC)}
\* The Ids written to refs.
RefIds == {IdB}
\* The revisions handed to rev_parse.
Revs == {sHEAD, sHEADSlash, sMaster, sAbab, sLock, sAbcd, IdA, IdC, <<"@">>}
\* The objects handed to store and the Ids handed to open.
Objects == {BlobA, BlobC}
Ids == {IdA, IdC}

Called(op, name, out) == [op |-> op, name |-> name, out |-> out]

\* A repository made by Repo::init.
FreshFiles == (sHEAD :> InitHEAD)
\* A repository made by git, with tags and remotes and a symbolic ref
\* refs/tags/master beside the branch.
\* It holds the object BlobD.
GitDirs == InitDirs \cup {sRefsTags, sRefsRemotes, Parent(PathForObject(IdD))}
GitFiles ==
    (sHEAD :> InitHEAD)
      @@ (sRefsTagsMaster :> TextFile(sRefPrefix \o <<" ">> \o sRefsHeadsMaster \o <<"\n">>))
      @@ (sRefsHeadsMaster :> TextFile(IdA \o <<"\n">>))
      @@ (PathForObject(IdD) :> PrepareStore(BlobD).content)
\* A repository whose HEAD is a symbolic ref to itself.  It holds the
\* object BlobB.
LoopDirs == InitDirs \cup {Parent(PathForObject(IdB))}
LoopFiles ==
    (sHEAD :> TextFile(sRefPrefix \o <<" ">> \o sHEAD \o <<"\n">>))
      @@ (PathForObject(IdB) :> PrepareStore(BlobB).content)

Images == {[files |-> FreshFiles, dirs |-> InitDirs],
           [files |-> GitFiles, dirs |-> GitDirs],
           [files |-> LoopFiles, dirs |-> LoopDirs]}

None == [kind |-> "None"]
NotComposed == [kind |-> "None", trees |-> <<>>, st |-> <<>>]

\* The values of a machine's variables while another machine runs.
RepoIdle ==
    /\ files = FreshFiles /\ dirs = InitDirs
    /\ last = Called("init", <<>>, Ok(<<>>))
    /\ stored = {}
CodecIdle == obj = BlobC /\ payload = None /\ decoded = None
TreeIdle == index = <<>> /\ emitted = NotComposed /\ filelist = None
IndexIdle == my_index = <<>> /\ indexfile = None /\ worktree = <<>> /\ ilast = None
StatIdle == statArgs = None /\ statOut = None
DiffIdle ==
    /\ diffL = <<>> /\ diffR = <<>> /\ lpos = 0 /\ rpos = 0
    /\ diffs = <<>> /\ diffDone = FALSE
RefnameIdle == refArgs = None /\ refOut = None
IdIdle == hexArg = None /\ hexOut = None
LinkIdle == linkfs = <<>> /\ linkArg = None /\ linkOut = None
EntIdle == entName = <<>> /\ entMeta = None /\ entBytes = None
LoadIdle == loadArg = None /\ loadOut = None
MoreIdle == LinkIdle /\ EntIdle /\ LoadIdle
PureIdle == StatIdle /\ DiffIdle /\ RefnameIdle /\ IdIdle /\ MoreIdle

Init ==
    /\ \E im \in Images : files = im.files /\ dirs = im.dirs
    /\ last = Called("init", <<>>, Ok(<<>>))
    /\ stored = {}
    /\ CodecIdle /\ TreeIdle /\ IndexIdle /\ PureIdle

\* Repo::store
Store(o) ==
    LET r == StoreIn(files, dirs, o)
    IN  /\ files' = r.files
        /\ dirs' = r.dirs
        /\ stored' = IF IsOk(r.out) THEN stored \cup {<<r.out.val, o>>} ELSE stored
        /\ last' = Called("store", <<>>, r.out)
        /\ UNCHANGED <<codecVars, treeVars, indexVars, pureVars>>

\* Repo::open
OpenObject(id) ==
    /\ last' = Called("open", id, Open(id))
    /\ UNCHANGED <<files, dirs, stored, codecVars, treeVars, indexVars, pureVars>>

\* Repo::set_head
SetHead(id) ==
    /\ IF CanWrite(sHEAD, dirs)
       THEN /\ files' = Put(files, sHEAD, TextFile(id))
            /\ last' = Called("set_head", id, Ok(<<>>))
       ELSE /\ UNCHANGED files
            /\ last' = Called("set_head", id, Err("hecked up setting head"))
    /\ UNCHANGED <<dirs, stored, codecVars, treeVars, indexVars, pureVars>>

\* rev::update_ref
DoUpdateRef(name, id) ==
    LET r == UpdateRef(name, id)
    IN  /\ files' = r.files
        /\ last' = [op |-> "update_ref", name |-> name, id |-> id, out |-> r.out]
        /\ UNCHANGED <<dirs, stored, codecVars, treeVars, indexVars, pureVars>>

\* rev::parse
RevParse(rev) ==
    /\ last' = Called("rev_parse", rev, Parse(rev))
    /\ UNCHANGED <<files, dirs, stored, codecVars, treeVars, indexVars, pureVars>>

Next ==
    \/ \E o \in Objects : Store(o)
    \/ \E id \in Ids : OpenObject(id)
    \/ \E id \in RefIds : SetHead(id)
    \/ \E name \in RefNames, id \in RefIds : DoUpdateRef(name, id)
    \/ \E rev \in Revs : RevParse(rev)

Spec == Init /\ [][Next]_vars

(***************************************************************************)
(* Properties of the repository machine.                                   *)
(***************************************************************************)

\* The Ids of the objects in the database.
ObjectIds == {KnownIds[k] : k \in 1..Len(KnownIds)}
DatabaseIds == {i \in ObjectIds : HasId(i)}
IsHexPrefix(p, n) == Len(p) >= n /\ \A i \in 1..Len(p) : IsHexDigit(p[i])
MatchingIds(p) == {i \in DatabaseIds : StartsWith(i, p)}

\* C1: every object that store() has returned an Id for stays in the
\* database: whatever store, set_head and update_ref calls follow, has(i) is
\* true and open(i) returns the object that was stored.
C1_StoredObjectsStay ==
    \A s \in stored : HasId(s[1]) /\ Open(s[1]) = Ok(s[2])

\* C17: storing an object whose Id is already present in the object
\* database returns that Id and writes nothing: the files, their contents
\* and the directories are the same after the call.
C17_StorePresentWritesNothing ==
    [][\A o \in Objects :
          (Store(o) /\ HasId(PrepareStore(o).id))
              => /\ last'.out = Ok(PrepareStore(o).id)
                 /\ files' = files
                 /\ dirs' = dirs]_vars
\* store has returned the Id of the empty blob although the file of that
\* Id holds the text of a ref: the Id was present, and nothing was written.
C17_Witness ==
    /\ last.op = "store" /\ last.out = Ok(IdC)
    /\ PathForObject(IdC) \in DOMAIN files
    /\ files[PathForObject(IdC)].kind = "text"

\* The files of the object database: those below objects/.
IsObjectFile(p) == StartsWith(p, sObjects \o <<"/">>)

\* C18: the object database is append-only: in every step of store,
\* set_head and update_ref an object file that exists stays, with the
\* content it has.
C18_ObjectFilesAppendOnly ==
    [][\A p \in DOMAIN files :
          IsObjectFile(p) => (p \in DOMAIN files' /\ files'[p] = files[p])]_vars

\* What a successful update_ref("HEAD", id) step has done when HEAD held
\* the symref r, and when it held a literal Id.
HeadWriteRedirected(r) ==
    /\ r.kind = "Symref"
          => /\ FsPath(r.target) \in DOMAIN files'
             /\ files'[FsPath(r.target)] = TextFile(last'.id)
             /\ files'[sHEAD] = files[sHEAD]
    /\ r.kind = "Id" => files'[sHEAD] = TextFile(last'.id)

C4_UniquePrefixResolves ==
    (last.op = "rev_parse" /\ IsHexPrefix(last.name, 4))
        => \A i \in MatchingIds(last.name) :
              MatchingIds(last.name) = {i} => last.out = Ok(i)

\* C5: rev_parse of the full 40-character hex form of the Id of an object
\* in the database returns exactly that Id.
C5_FullIdResolves ==
    (last.op = "rev_parse" /\ last.name \in DatabaseIds) => last.out = Ok(last.name)

\* C6: when two or more objects in the database have Ids that begin with a
\* hex prefix of 4 to 20 characters, rev_parse of the prefix fails with
\* Ambiguous.
C6_SharedPrefixIsAmbiguous ==
    (/\ last.op = "rev_parse"
     /\ IsHexPrefix(last.name, 4) /\ Len(last.name) <= 20
     /\ Cardinality(MatchingIds(last.name)) >= 2)
        => last.out = Err("Ambiguous")

\* C7: rev_parse and update_ref of a refname the validator declares invalid
\* fail with the invalid-refname error.
C7_InvalidRefnameRejected ==
    (/\ last.op \in {"rev_parse", "update_ref"}
     /\ last.name # <<"@">>
     /\ ~IsValidRefname(last.name, TRUE))
        => last.out = Err("Invalid")

\* C8: rev_parse returns an Id or an error in every repository state, one
\* whose HEAD is a symbolic ref to itself included.
C8_RevParseReturns ==
    last.op = "rev_parse" => last.out.kind \in {"Ok", "Err"}

HoldsId(rev, i) == ParseIdFrom(Push(TryPaths[i], rev)).kind = "Id"
\* C10: when the abbreviated-object step does not answer and some location
\* of the lookup order holds an Id, rev_parse returns the Id of the earliest
\* such location, also when an earlier location holds a symbolic ref.
C10_EarliestLocationWins ==
    (/\ last.op = "rev_parse"
     /\ last.name # sHEAD
     /\ ~IsValidSha1(last.name))
        => \A i \in 1..Len(TryPaths) :
              (HoldsId(last.name, i) /\ \A j \in 1..(i - 1) : ~HoldsId(last.name, j))
                 => last.out = Ok(ParseIdFrom(Push(TryPaths[i], last.name)).id)

(***************************************************************************)
(* The codec machine: an object value is encoded, and the payload is       *)
(* decoded by the loader of its kind.                                      *)
(***************************************************************************)

\* The longest blob content and the most tree entries tried.
MaxContent == 2
MaxEntries == 2

RECURSIVE SeqsUpTo(_, _)
SeqsUpTo(S, n) ==
    IF n = 0 THEN {<<>>}
    ELSE SeqsUpTo(S, n - 1) \cup {Append(q, x) : q \in {r \in SeqsUpTo(S, n - 1) : Len(r) = n - 1}, x \in S}

\* File modes: 0o100644 and 0o040000.
ModeBlob == 33188
ModeTree == 16384

CodecBlobs == {Blob(c) : c \in SeqsUpTo({"a", NUL, "\n"}, MaxContent)}
CodecFiles ==
    [mode : {ModeBlob, ModeTree}, name : {<<"a">>, <<"b", " ", "c">>}, id : {IdA, IdC}]
CodecTrees == {Tree(fs) : fs \in SeqsUpTo(CodecFiles, MaxEntries)}
\* Times: 2020-04-09 00:10:37 UTC at -07:00, and an instant with a
\* sub-second part at +05:30.
CodecTimes == {[secs |-> 1586391037, nanos |-> 0, offset |-> -420],
               [secs |-> 5, nanos |-> 7, offset |-> 330]}
CodecNames ==
    [name : {<<"l", "f", "-">>, <<"A", " ", "U">>},
     email : {<<"a", "@", "x">>, <<"a", " ", "b", "@", "x">>},
     time : CodecTimes]
CodecCommitters ==
    {[name |-> <<"l", "f", "-">>, email |-> <<"a", "@", "x">>, time |-> t] : t \in CodecTimes}
CodecCommits ==
    [tag : {"commit"}, tree : {IdA}, parents : {<<>>, <<IdB>>, <<IdB, IdC>>},
     author : CodecNames, committer : CodecCommitters,
     message : {<<>>, <<"m", "s", "g", "\n">>}]
CodecObjects == CodecBlobs \cup CodecTrees \cup CodecCommits

InitCodec ==
    /\ obj \in CodecObjects
    /\ payload = None /\ decoded = None
    /\ RepoIdle /\ TreeIdle /\ IndexIdle /\ PureIdle

\* GitObject::encode
Encode ==
    /\ payload' = Ok(ObjectEncode(obj))
    /\ UNCHANGED <<obj, decoded, repoVars, treeVars, indexVars, pureVars>>

\* Blob::load, Tree::load, Commit::load on the encoded payload
Decode ==
    /\ IsOk(payload)
    /\ decoded' = ObjectLoad(obj.tag, payload.val)
    /\ UNCHANGED <<obj, payload, repoVars, treeVars, indexVars, pureVars>>

NextCodec == Encode \/ Decode

SpecCodec == InitCodec /\ [][NextCodec]_vars

\* C2: decoding the encoded payload of a Blob, Tree or Commit value yields
\* the value again, field for field.
C2_DecodeInvertsEncode ==
    decoded # None => decoded = Ok(obj)

(***************************************************************************)
(* tree.rs: the tree composer.  A SubTree is a map from names to entries,  *)
(* an entry being a Blob or Tree reference ([kind, id]) or a SubTree in    *)
(* memory ([kind |-> "SubTree", st]).                                      *)
(***************************************************************************)

BlobEntry(id) == [kind |-> "Blob", id |-> id]
TreeEntry(id) == [kind |-> "Tree", id |-> id]
SubTreeEntry(st) == [kind |-> "SubTree", st |-> st]
EmptySubTree == <<>>

\* Byte-wise order of strings, the order of String keys in a BTreeMap.
RECURSIVE LessBytes(_, _)
LessBytes(a, b) ==
    IF b = <<>> THEN FALSE
    ELSE IF a = <<>> THEN TRUE
    ELSE IF Head(a) = Head(b) THEN LessBytes(Tail(a), Tail(b))
    ELSE Ord(Head(a)) < Ord(Head(b))

\* BTreeMap::iter: the keys in ascending order.
RECURSIVE SortedKeys(_)
SortedKeys(S) ==
    IF S = {} THEN <<>>
    ELSE LET m == CHOOSE x \in S : \A y \in S \ {x} : LessBytes(x, y)
         IN  <<m>> \o SortedKeys(S \ {m})

\* BTreeMap::insert and entry().or_insert_with()
MapPut(st, k, v) == [x \in DOMAIN st \cup {k} |-> IF x = k THEN v ELSE st[x]]

\* index_to_tree, one entry: walk the directories of the path, making the
\* missing ones, and insert the file's blob.  A component that is present
\* but no SubTree panics.
RECURSIVE InsertPath(_, _, _)
InsertPath(st, parts, id) ==
    IF Len(parts) = 1 THEN Ok(MapPut(st, parts[1], BlobEntry(id)))
    ELSE LET part == Head(parts)
             entry == IF part \in DOMAIN st THEN st[part] ELSE SubTreeEntry(EmptySubTree)
         IN  IF entry.kind # "SubTree" THEN Panic
             ELSE LET sub == InsertPath(entry.st, Tail(parts), id)
                  IN  IF ~IsOk(sub) THEN sub
                      ELSE Ok(MapPut(st, part, SubTreeEntry(sub.val)))

\* index_to_tree
RECURSIVE IndexToTreeFrom(_, _)
IndexToTreeFrom(idx, st) ==
    IF idx = <<>> THEN Ok(st)
    ELSE LET r == InsertPath(st, Split(Head(idx).name, "/"), Head(idx).id)
         IN  IF ~IsOk(r) THEN r ELSE IndexToTreeFrom(Tail(idx), r.val)
IndexToTree(idx) == IndexToTreeFrom(idx, EmptySubTree)

\* TreeEntry::perms
Perms(e) == IF e.kind = "Blob" THEN ModeBlob ELSE ModeTree

\* save_subtree_to_disk: the entries in the order of the map, stored as a Tree.
FlatTree(st) ==
    Tree([i \in 1..Len(SortedKeys(DOMAIN st)) |->
            [mode |-> Perms(st[SortedKeys(DOMAIN st)[i]]),
             name |-> SortedKeys(DOMAIN st)[i],
             id |-> st[SortedKeys(DOMAIN st)[i]].id]])

\* A SubTree with every SubTree inside it replaced by the reference to its
\* Tree.
RECURSIVE Flattened(_)
Flattened(st) ==
    [k \in DOMAIN st |->
        IF st[k].kind = "SubTree"
        THEN TreeEntry(PrepareStore(FlatTree(Flattened(st[k].st))).id)
        ELSE st[k]]
\* A save that stores the Tree of st alone, none of the Trees below it.
SaveRootOnly(st, fs, ds) ==
    [out |-> StoreIn(fs, ds, FlatTree(Flattened(st))).out,
     files |-> StoreIn(fs, ds, FlatTree(Flattened(st))).files,
     dirs |-> StoreIn(fs, ds, FlatTree(Flattened(st))).dirs,
     trees |-> <<FlatTree(Flattened(st))>>,
     st |-> Flattened(st)]

\* save_subtree: save the SubTrees inside st, in the order of the map,
\* replace each by the reference to its Tree, then save st itself.  The
\* result carries the directory after the stores, the Trees stored and
\* the SubTree as the call leaves it.
RECURSIVE SaveSubtree(_, _, _)
RECURSIVE SaveEntries(_, _, _)
SaveEntries(st, keys, acc) ==
    IF keys = <<>> THEN [acc EXCEPT !.st = st]
    ELSE IF st[Head(keys)].kind # "SubTree" THEN SaveEntries(st, Tail(keys), acc)
    ELSE LET r == SaveSubtree(st[Head(keys)].st, acc.files, acc.dirs)
         IN  IF ~IsOk(r.out)
             THEN [out |-> r.out, st |-> st, files |-> r.files, dirs |-> r.dirs,
                   trees |-> acc.trees \o r.trees]
             ELSE SaveEntries(MapPut(st, Head(keys), TreeEntry(r.out.val)), Tail(keys),
                              [out |-> acc.out, st |-> st, files |-> r.files,
                               dirs |-> r.dirs, trees |-> acc.trees \o r.trees])
SaveSubtree(st, fs, ds) ==
    LET inner == SaveEntries(st, SortedKeys(DOMAIN st),
                             [out |-> Ok(<<>>), st |-> st, files |-> fs, dirs |-> ds,
                              trees |-> <<>>])
        saved == StoreIn(inner.files, inner.dirs, FlatTree(inner.st))
    IN  IF ~IsOk(inner.out)
        THEN [out |-> inner.out, files |-> inner.files, dirs |-> inner.dirs,
              trees |-> inner.trees, st |-> inner.st]
        ELSE [out |-> saved.out, files |-> saved.files, dirs |-> saved.dirs,
              trees |-> IF IsOk(saved.out) THEN Append(inner.trees, FlatTree(inner.st))
                        ELSE inner.trees,
              st |-> inner.st]

(***************************************************************************)
(* The composer machine: the tree of an index is written to the database.  *)
(***************************************************************************)

\* The paths an index is drawn from.
IndexPaths ==
    {<<"a">>, <<"a", "-", "b">>, <<"a", ".", "c">>, <<"a", "0">>, <<"b">>,
     <<"a", "/", "b">>, <<"a", "/", "c", "/", "d">>, <<"c", "/", "b">>}
\* The index holds its entries sorted by name.
IndexOfPaths(S) ==
    [i \in 1..Cardinality(S) |->
        [name |-> SortedKeys(S)[i], id |-> IF i % 2 = 1 THEN IdA ELSE IdB]]
Indexes == {IndexOfPaths(S) : S \in SUBSET IndexPaths}

\* The databases a run starts on: a fresh one, and those that a run on an
\* earlier index has left its Trees in.
PriorIndexes ==
    {IndexOfPaths({<<"a", "/", "b">>}),
     IndexOfPaths({<<"a", "-", "b">>, <<"a", "/", "b">>, <<"a", "/", "c", "/", "d">>})}
ComposedOn(fs, ds, ix) == SaveSubtree(IndexToTree(ix).val, fs, ds)
PriorDatabases ==
    {[files |-> FreshFiles, dirs |-> InitDirs]}
      \cup {[files |-> ComposedOn(FreshFiles, InitDirs, ix).files,
              dirs |-> ComposedOn(FreshFiles, InitDirs, ix).dirs] : ix \in PriorIndexes}

InitTree ==
    /\ index \in Indexes
    /\ emitted = NotComposed
    /\ filelist = None
    /\ \E db \in PriorDatabases : files = db.files /\ dirs = db.dirs
    /\ last = Called("init", <<>>, Ok(<<>>))
    /\ stored = {}
    /\ CodecIdle /\ IndexIdle /\ PureIdle

\* save_subtree(index_to_tree(index))
WriteTree ==
    LET st == IndexToTree(index)
        r == SaveSubtree(st.val, files, dirs)
    IN  /\ IF ~IsOk(st)
           THEN /\ emitted' = [kind |-> "Panic", trees |-> <<>>, st |-> <<>>]
                /\ last' = Called("save_subtree", <<>>, Panic)
                /\ UNCHANGED <<files, dirs>>
           ELSE /\ emitted' = [kind |-> "Done", trees |-> r.trees, st |-> r.st]
                /\ last' = Called("save_subtree", <<>>, r.out)
                /\ files' = r.files
                /\ dirs' = r.dirs
        /\ UNCHANGED <<index, filelist, stored, codecVars, indexVars, pureVars>>

\* File::is_dir
FileIsDir(f) == (f.mode \div 512) % 512 = 32

\* tree_or_err
TreeOrErr(id) ==
    IF ~IsOk(Open(id)) THEN Open(id)
    ELSE IF Open(id).val.tag = "tree" THEN Open(id) ELSE Err("BadId")

\* load_tree_from_disk: the files of the tree in the order of its entries,
\* the files of a directory in the place of the directory.
PathIn(base_path, name) ==
    IF base_path = <<>> THEN name ELSE base_path \o <<"/">> \o name
RECURSIVE LoadItems(_, _, _)
LoadRest(items, base_path, r) ==
    IF ~IsOk(r) THEN r ELSE LoadItems(Tail(items), base_path, r.val)
LoadDirThen(items, base_path, fl, t) ==
    IF ~IsOk(t) THEN t
    ELSE LoadRest(items, base_path,
                  LoadItems(t.val.files, PathIn(base_path, Head(items).name), fl))
LoadItems(items, base_path, fl) ==
    IF items = <<>> THEN Ok(fl)
    ELSE IF FileIsDir(Head(items))
    THEN LoadDirThen(items, base_path, fl, TreeOrErr(Head(items).id))
    ELSE LoadItems(Tail(items), base_path,
                   Append(fl, <<PathIn(base_path, Head(items).name), Head(items).id>>))
LoadTreeFromDisk(tree, base_path, fl) == LoadItems(tree.files, base_path, fl)

\* The start of status: open the Tree the composer returned and walk it.
WalkTreeOf(head_tree) ==
    /\ filelist' = IF IsOk(head_tree) THEN LoadTreeFromDisk(head_tree.val, <<>>, <<>>)
                   ELSE head_tree
    /\ UNCHANGED <<index, emitted, repoVars, codecVars, indexVars, pureVars>>
WalkTree ==
    /\ emitted.kind = "Done" /\ IsOk(last.out)
    /\ filelist = None
    /\ WalkTreeOf(TreeOrErr(last.out.val))

NextTree == WriteTree \/ WalkTree

SpecTree == InitTree /\ [][NextTree]_vars

\* The key an entry is ordered by in canonical Git order.
CanonKey(f) == IF FileIsDir(f) THEN f.name \o <<"/">> ELSE f.name
IsCanonical(t) ==
    \A i \in 1..Len(t.files), j \in 1..Len(t.files) :
        i < j => LessBytes(CanonKey(t.files[i]), CanonKey(t.files[j]))

\* C3: every Tree the composer emits lists its entries in canonical Git
\* order, a directory being ordered as its name followed by "/".
C3_EmittedTreesCanonical ==
    \A k \in 1..Len(emitted.trees) : IsCanonical(emitted.trees[k])

\* C19: a run of the composer (index_to_tree, then save_subtree) yields
\* the same root Id when it is repeated on the same index, and the same
\* root Id as on a database that holds no Tree yet: the root Id does not
\* depend on the Trees that were in the database before the run.
C19_RootIdIsDeterministic ==
    (last.op = "save_subtree" /\ emitted.kind = "Done" /\ IsOk(last.out))
        => /\ ComposedOn(files, dirs, index).out = last.out
           /\ ComposedOn(FreshFiles, InitDirs, index).out = last.out
\* A run has stored two or more Trees in a database that holds the Tree
\* of another index as well.
C19_Witness ==
    /\ last.op = "save_subtree" /\ emitted.kind = "Done" /\ IsOk(last.out)
    /\ Len(emitted.trees) >= 2
    /\ \E p \in DOMAIN files :
          /\ IsObjectFile(p)
          /\ \A k \in 1..Len(emitted.trees) :
                p # PathForObject(PrepareStore(emitted.trees[k]).id)

(***************************************************************************)
(* index.rs: the index file.  The file is a sequence of byte tokens.  A    *)
(* String is its UTF-8 bytes: a byte of the model's alphabet is written as *)
(* its character, any other byte as its byte token.  u32be and u16be are   *)
(* byte arrays, so an IndexMeta is a record of byte sequences and an Id.   *)
(***************************************************************************)

Chars == {Printable[i] : i \in 1..Len(Printable)} \cup {NUL, SOH, "\t", "\n", "\r", DEL}
ChrTable ==
    [n \in 0..127 |-> IF \E c \in Chars : Ord(c) = n
                      THEN CHOOSE c \in Chars : Ord(c) = n
                      ELSE ByteTok(n)]
\* str::as_bytes
AsBytes(str) ==
    [i \in 1..Len(str) |-> IF str[i] \in ByteToks THEN str[i] ELSE ByteTok(Ord(str[i]))]

\* std::str::from_utf8: the bytes must be well-formed UTF-8.
IsCont(b) == 128 <= b /\ b <= 191
RECURSIVE ValidUtf8From(_, _)
ValidUtf8From(v, i) ==
    IF i > Len(v) THEN TRUE
    ELSE LET b == v[i]
             more == Len(v) - i
         IN  IF b < 128 THEN ValidUtf8From(v, i + 1)
             ELSE IF 194 <= b /\ b <= 223
                  THEN more >= 1 /\ IsCont(v[i + 1]) /\ ValidUtf8From(v, i + 2)
             ELSE IF 224 <= b /\ b <= 239
                  THEN /\ more >= 2
                       /\ IsCont(v[i + 1]) /\ IsCont(v[i + 2])
                       /\ (b = 224 => v[i + 1] >= 160)
                       /\ (b = 237 => v[i + 1] <= 159)
                       /\ ValidUtf8From(v, i + 3)
             ELSE IF 240 <= b /\ b <= 244
                  THEN /\ more >= 3
                       /\ IsCont(v[i + 1]) /\ IsCont(v[i + 2]) /\ IsCont(v[i + 3])
                       /\ (b = 240 => v[i + 1] >= 144)
                       /\ (b = 244 => v[i + 1] <= 143)
                       /\ ValidUtf8From(v, i + 4)
             ELSE FALSE
FromUtf8(bs) ==
    IF ValidUtf8From([i \in 1..Len(bs) |-> ByteVal(bs[i])], 1)
    THEN Ok([i \in 1..Len(bs) |->
                IF ByteVal(bs[i]) < 128 THEN ChrTable[ByteVal(bs[i])] ELSE bs[i]])
    ELSE Err("Utf8Error")

\* u32be::from(u32) and u16be::from(u16): to_be_bytes.
U32be(n) ==
    <<ByteTok(n \div 16777216), ByteTok((n \div 65536) % 256),
      ByteTok((n \div 256) % 256), ByteTok(n % 256)>>
U16be(n) == <<ByteTok(n \div 256), ByteTok(n % 256)>>
\* u32::from(u32be) and u16::from(u16be): from_be_bytes.  (The counts and
\* versions of the model's files stay below 2^31.)
FromU32be(b) ==
    ((ByteVal(b[1]) * 256 + ByteVal(b[2])) * 256 + ByteVal(b[3])) * 256 + ByteVal(b[4])
FromU16be(b) == ByteVal(b[1]) * 256 + ByteVal(b[2])

SIGNATURE == AsBytes(<<"D", "I", "R", "C">>)
VERSION == 2
\* mem::size_of of the two repr(C) structs, whose fields are byte arrays.
SizeOfHeader == 12
SizeOfIndexMeta == 62

IndexEntry(name, meta) == [name |-> name, meta |-> meta]

\* Safecast of Header and of IndexMeta: the fields in declaration order.
HeaderCast(num_entries) == SIGNATURE \o U32be(VERSION) \o U32be(num_entries)
MetaCast(m) ==
    m.ctime \o m.ctime_ns \o m.mtime \o m.mtime_ns \o m.dev \o m.ino \o m.mode
      \o m.uid \o m.gid \o m.size \o IdBytes(m.id) \o m.flags
MetaOfBytes(b) ==
    [ctime |-> SubSeq(b, 1, 4), ctime_ns |-> SubSeq(b, 5, 8),
     mtime |-> SubSeq(b, 9, 12), mtime_ns |-> SubSeq(b, 13, 16),
     dev |-> SubSeq(b, 17, 20), ino |-> SubSeq(b, 21, 24),
     mode |-> SubSeq(b, 25, 28), uid |-> SubSeq(b, 29, 32),
     gid |-> SubSeq(b, 33, 36), size |-> SubSeq(b, 37, 40),
     id |-> IdOfBytes(SubSeq(b, 41, 60)), flags |-> SubSeq(b, 61, 62)]

\* A rounding that adds nothing to a record that ends on the boundary.
NameRecordSizeExact(name_length) ==
    (SizeOfIndexMeta + name_length
       + ((8 - ((SizeOfIndexMeta + name_length) % 8)) % 8)) - SizeOfIndexMeta
\* name_record_size: the name and its padding to the next 8-byte boundary.
NameRecordSize(name_length) ==
    LET full_record_sz == SizeOfIndexMeta + name_length
    IN  (full_record_sz + (8 - (full_record_sz % 8))) - SizeOfIndexMeta

\* write_to_file: header, then per entry its meta, name and padding, then
\* the hash of everything written.
EntryBytes(e) ==
    MetaCast(e.meta) \o AsBytes(e.name)
      \o [i \in 1..(NameRecordSize(Len(e.name)) - Len(e.name)) |-> ByteTok(0)]
WriteToFile(ix) ==
    LET body == HeaderCast(Len(ix)) \o Concat([i \in 1..Len(ix) |-> EntryBytes(ix[i])])
    IN  body \o IdBytes(Sha1(body))

\* parse: the loop over the entries; read_exact fails when the file ends
\* early, and a name length of 0xfff is unimplemented!().
RECURSIVE ParseEntries(_, _, _, _)
ParseEntries(file, pos, left_, acc) ==
    IF left_ = 0 THEN Ok(acc)
    ELSE IF pos + SizeOfIndexMeta > Len(file) THEN Err("UnexpectedEof")
    ELSE LET meta == MetaOfBytes(SubSeq(file, pos + 1, pos + SizeOfIndexMeta))
             name_length == FromU16be(meta.flags) % 4096
             record_sz == NameRecordSize(name_length)
             start == pos + SizeOfIndexMeta
         IN  IF name_length = 4095 THEN Panic
             ELSE IF start + record_sz > Len(file) THEN Err("UnexpectedEof")
             ELSE LET name == FromUtf8(SubSeq(file, start + 1, start + name_length))
                  IN  IF ~IsOk(name) THEN name
                      ELSE ParseEntries(file, start + record_sz, left_ - 1,
                                        Append(acc, IndexEntry(name.val, meta)))
IndexParse(file) ==
    IF Len(file) < SizeOfHeader THEN Err("UnexpectedEof")
    ELSE IF SubSeq(file, 1, 4) # SIGNATURE THEN Err("BadMagic")
    ELSE IF FromU32be(SubSeq(file, 5, 8)) # 2 THEN Err("UnsupportedVersion")
    ELSE ParseEntries(file, SizeOfHeader, FromU32be(SubSeq(file, 9, 12)), <<>>)

(***************************************************************************)
(* index.rs: stat tuples and add_to_index.  The working tree maps a        *)
(* repo-relative path to [content, mtime]; mtime is (seconds, nanoseconds).*)
(***************************************************************************)

UnixStat(dev, ino, uid, gid, executable) ==
    [dev |-> dev, ino |-> ino, uid |-> uid, gid |-> gid, executable |-> executable]
\* UnixStat::get: Default::default().
UnixStatGet == UnixStat(0, 0, 0, 0, FALSE)
\* UnixStat::mode: 0o100755 and 0o100644.
ModeExecutable == 33261
ModeRegular == 33188
UnixStatMode(us) == IF us.executable THEN ModeExecutable ELSE ModeRegular

StatInfo(ctime, mtime, size, unix_stat) ==
    [ctime |-> ctime, mtime |-> mtime, size |-> size, unix_stat |-> unix_stat]
\* StatInfo::get: both times are taken from modified().
StatInfoGet(wt, filename) ==
    IF filename \in DOMAIN wt
    THEN Ok(StatInfo(wt[filename].mtime, wt[filename].mtime,
                     Len(wt[filename].content), UnixStatGet))
    ELSE Err("failed to find metadata")

\* PartialEq for UnixStat, on a Unix target.
UnixStatEq(self, other) ==
    /\ (self.dev = 0 \/ self.dev = other.dev)
    /\ (self.gid = 0 \/ other.gid = 0 \/ self.gid = other.gid)
    /\ (self.uid = 0 \/ other.uid = 0 \/ self.uid = other.uid)
    /\ (self.ino = 0 \/ other.ino = 0 \/ self.ino = other.ino)
    /\ (self.dev = 0 \/ other.dev = 0 \/ self.dev = other.dev)
    /\ self.executable = other.executable
\* A comparison that finds every file changed.
StatInfoNeverEq(a, b) == FALSE
\* The derived PartialEq of StatInfo.
StatInfoEq(a, b) ==
    /\ a.ctime = b.ctime
    /\ a.mtime = b.mtime
    /\ a.size = b.size
    /\ UnixStatEq(a.unix_stat, b.unix_stat)

\* IndexMeta::statinfo.  0o755 is 493.
MetaStatinfo(m) ==
    StatInfo(<<FromU32be(m.ctime), FromU32be(m.ctime_ns)>>,
             <<FromU32be(m.mtime), FromU32be(m.mtime_ns)>>,
             FromU32be(m.size),
             UnixStat(FromU32be(m.dev), FromU32be(m.ino), FromU32be(m.uid),
                      FromU32be(m.gid), FromU32be(m.mode) % 512 = 493))

\* The IndexMeta made of a StatInfo, an Id and the flags.
MetaOf(si, id, flags) ==
    [ctime |-> U32be(si.ctime[1]), ctime_ns |-> U32be(si.ctime[2]),
     mtime |-> U32be(si.mtime[1]), mtime_ns |-> U32be(si.mtime[2]),
     dev |-> U32be(si.unix_stat.dev), ino |-> U32be(si.unix_stat.ino),
     mode |-> U32be(UnixStatMode(si.unix_stat)),
     uid |-> U32be(si.unix_stat.uid), gid |-> U32be(si.unix_stat.gid),
     size |-> U32be(si.size), id |-> id, flags |-> U16be(flags)]

\* IndexMeta::new_from_file on the working tree wt and the directory
\* (fs, ds): store the blob, stat the file, keep the low 12 bits of the
\* name's length as flags.  st is the outcome of repo.store.
NewFromFileStored(filename, wt, fs, ds, st) ==
    IF ~IsOk(st.out) THEN [out |-> st.out, files |-> fs, dirs |-> ds]
    ELSE [out |-> Ok(MetaOf(StatInfoGet(wt, filename).val, st.out.val,
                            Len(filename) % 4096)),
          files |-> st.files, dirs |-> st.dirs]
NewFromFile(filename, wt, fs, ds) ==
    IF filename \notin DOMAIN wt
    THEN [out |-> Err("making blob"), files |-> fs, dirs |-> ds]
    ELSE NewFromFileStored(filename, wt, fs, ds,
                           StoreIn(fs, ds, Blob(wt[filename].content)))

\* str::cmp: the order of the bytes.
ByteOf(c) == IF c \in ByteToks THEN ByteVal(c) ELSE Ord(c)
RECURSIVE StrCmp(_, _)
StrCmp(a, b) ==
    IF a = <<>> /\ b = <<>> THEN "Equal"
    ELSE IF a = <<>> THEN "Less"
    ELSE IF b = <<>> THEN "Greater"
    ELSE IF Head(a) = Head(b) THEN StrCmp(Tail(a), Tail(b))
    ELSE IF ByteOf(Head(a)) < ByteOf(Head(b)) THEN "Less" ELSE "Greater"

\* slice::binary_search_by with |entry| entry.name.cmp(filename): halve the
\* slice until one candidate is left.  base is 0-based as in the library.
RECURSIVE SearchLoop(_, _, _, _)
SearchLoop(ix, filename, base, size) ==
    IF size > 1
    THEN LET half == size \div 2
             mid == base + half
         IN  SearchLoop(ix, filename,
                        IF StrCmp(ix[mid + 1].name, filename) = "Greater" THEN base ELSE mid,
                        size - half)
    ELSE base
\* Always the insertion point behind the last entry.
SearchPastEnd(ix, filename) == [found |-> FALSE, idx |-> Len(ix)]
BinarySearch(ix, filename) ==
    IF ix = <<>> THEN [found |-> FALSE, idx |-> 0]
    ELSE LET base == SearchLoop(ix, filename, 0, Len(ix))
             cmp == StrCmp(ix[base + 1].name, filename)
         IN  IF cmp = "Equal" THEN [found |-> TRUE, idx |-> base]
             ELSE [found |-> FALSE, idx |-> base + (IF cmp = "Less" THEN 1 ELSE 0)]

\* Vec::insert at the 0-based position idx.
VecInsert(v, idx, x) == SubSeq(v, 1, idx) \o <<x>> \o SubSeq(v, idx + 1, Len(v))

\* add_to_index on the index ix: [out, index, files, dirs].  The match on
\* existing_entry, with filestats the stat of the file and new_entry the
\* outcome of new_from_file, which only the last two arms call.
AddToIndexMatch(ix, filename, existing_entry, filestats, new_entry, fs, ds) ==
    IF ~IsOk(filestats)
    THEN [out |-> filestats, index |-> ix, files |-> fs, dirs |-> ds]
    ELSE IF existing_entry.found
              /\ StatInfoEq(MetaStatinfo(ix[existing_entry.idx + 1].meta), filestats.val)
    THEN [out |-> Ok(ix[existing_entry.idx + 1].meta.id), index |-> ix,
          files |-> fs, dirs |-> ds]
    ELSE IF ~IsOk(new_entry.out)
    THEN [out |-> new_entry.out, index |-> ix, files |-> fs, dirs |-> ds]
    ELSE [out |-> Ok(new_entry.out.val.id),
          index |-> IF existing_entry.found
                    THEN [ix EXCEPT ![existing_entry.idx + 1].meta = new_entry.out.val]
                    ELSE VecInsert(ix, existing_entry.idx,
                                   IndexEntry(filename, new_entry.out.val)),
          files |-> new_entry.files, dirs |-> new_entry.dirs]
AddToIndexIn(ix, filename, wt, fs, ds) ==
    AddToIndexMatch(ix, filename, BinarySearch(ix, filename), StatInfoGet(wt, filename),
                    NewFromFile(filename, wt, fs, ds), fs, ds)

\* slice::sort_by with name.cmp(name2): a stable sort.
RECURSIVE SortInsert(_, _)
SortInsert(sorted, e) ==
    IF sorted = <<>> THEN <<e>>
    ELSE IF StrCmp(sorted[Len(sorted)].name, e.name) = "Greater"
         THEN Append(SortInsert(SubSeq(sorted, 1, Len(sorted) - 1), e), sorted[Len(sorted)])
         ELSE Append(sorted, e)
RECURSIVE SortByName(_)
SortByName(ix) ==
    IF ix = <<>> THEN <<>>
    ELSE SortInsert(SortByName(SubSeq(ix, 1, Len(ix) - 1)), ix[Len(ix)])

(***************************************************************************)
(* The index machine: commands::add in its steps.  Repo::index loads the   *)
(* index file, add_to_index adds one path of the working tree, and the end *)
(* of add checks the order and writes the file.  The machine starts with   *)
(* an index built by hand, as in test_index, or with an index file made    *)
(* by another program.                                                     *)
(***************************************************************************)

StrictlyAscending(ix) ==
    \A i \in 1..(Len(ix) - 1) : StrCmp(ix[i].name, ix[i + 1].name) = "Less"

sItem1 == <<"i", "t", "e", "m", "1">>
sItem2 == <<"i", "t", "e", "m", "2">>
sADotB == <<"a", ".", "b">>
sASlashB == <<"a", "/", "b">>

EntryOf(name, ctime, mtime, size, id, flags) ==
    IndexEntry(name, MetaOf(StatInfo(ctime, mtime, size, UnixStatGet), id, flags))
\* The two entries of test_index.
Item1 == EntryOf(sItem1, <<1587278278, 643062800>>, <<1587278286, 811862900>>, 8, IdA, 5)
Item2 == EntryOf(sItem2, <<1587278281, 186777864>>, <<1587278290, 753504900>>, 12, IdB, 5)
\* item1 with the assume-valid bit set, with a name length of 0, and a
\* one-letter name with a name length of 3.
Item1Valid == [Item1 EXCEPT !.meta.flags = U16be(32768 + 5)]
Item1Short == [Item1 EXCEPT !.meta.flags = U16be(0)]
ALong == EntryOf(<<"a">>, <<9, 0>>, <<9, 0>>, 0, IdC, 3)
\* a.b as it is in the working tree by its stat, with an Id that is not
\* the Id of its content.
ADotBFresh ==
    EntryOf(sADotB, <<1600000001, 0>>, <<1600000001, 0>>, Len(BlobA.content), IdD, 3)

\* The longest index and the longest entry list of a file at the start.
MaxIndexLen == 2
MemEntries == {Item1, Item2, Item1Valid, Item1Short, ALong, ADotBFresh}
MemIndexes == {ix \in SeqsUpTo(MemEntries, MaxIndexLen) : StrictlyAscending(ix)}
FileEntries == {Item1, Item2, Item1Valid}
ForeignFiles ==
    {WriteToFile(ix) : ix \in SeqsUpTo(FileEntries, MaxIndexLen)}
      \cup {Take(WriteToFile(<<Item1>>), 40), AsBytes(<<"D", "I", "R", "x">>) \o U32be(2) \o U32be(0)}

\* The working tree: item1 has changed since it was indexed, item2 is gone.
WorkFile(content, mtime) == [content |-> content, mtime |-> mtime]
WorkTree ==
    (sItem1 :> WorkFile(BlobA.content, <<1600000000, 5>>))
      @@ (sADotB :> WorkFile(BlobA.content, <<1600000001, 0>>))
      @@ (sASlashB :> WorkFile(BlobB.content, <<1600000002, 0>>))
AddNames == {sItem1, sItem2, sADotB, sASlashB}

InitIndex ==
    /\ \/ my_index \in MemIndexes /\ indexfile = None
       \/ my_index = <<>> /\ indexfile \in ForeignFiles
    /\ worktree = WorkTree
    /\ ilast = Called("init", <<>>, Ok(<<>>))
    /\ RepoIdle /\ CodecIdle /\ TreeIdle /\ PureIdle

\* Repo::index: an absent file is the empty index; a file that does not
\* parse ends the command.
LoadIndex ==
    LET r == IF indexfile = None THEN Ok(<<>>) ELSE IndexParse(indexfile)
    IN  /\ ilast' = Called("parse", <<>>, r)
        /\ my_index' = IF IsOk(r) THEN r.val ELSE my_index
        /\ UNCHANGED <<indexfile, worktree, repoVars, codecVars, treeVars, pureVars>>

\* index::add_to_index, r being its outcome on the current state.
AddToIndexDone(filename, r) ==
    /\ my_index' = r.index
    /\ files' = r.files
    /\ dirs' = r.dirs
    /\ ilast' = Called("add_to_index", filename, r.out)
    /\ UNCHANGED <<indexfile, worktree, last, stored, codecVars, treeVars, pureVars>>
AddToIndex(filename) ==
    AddToIndexDone(filename, AddToIndexIn(my_index, filename, worktree, files, dirs))

\* The end of commands::add: assert_eq!(unsorted, sorted), then
\* Repo::write_index.
WriteIndex ==
    /\ IF SortByName(my_index) # my_index
       THEN /\ ilast' = Called("write_index", my_index, Panic)
            /\ UNCHANGED indexfile
       ELSE /\ ilast' = Called("write_index", my_index, Ok(<<>>))
            /\ indexfile' = WriteToFile(my_index)
    /\ UNCHANGED <<my_index, worktree, repoVars, codecVars, treeVars, pureVars>>

NextIndex ==
    \/ LoadIndex
    \/ \E filename \in AddNames : AddToIndex(filename)
    \/ WriteIndex

SpecIndex == InitIndex /\ [][NextIndex]_vars

\* C11: for every name-sorted Index I, whatever the values of the entries'
\* fields (the flags included), parsing the bytes that writing I produced
\* yields an index equal to I.
C11_ParseInvertsWrite ==
    [][(ilast.op = "write_index" /\ IsOk(ilast.out) /\ ilast'.op = "parse")
          => ilast'.out = Ok(ilast.name)]_vars

\* C12: parsing an index file whose entries are not strictly ascending by
\* name (one with the same name twice, say) fails with a decode error: an
\* index that parse returns is strictly ascending.
C12_ParseRejectsUnsorted ==
    (ilast.op = "parse" /\ IsOk(ilast.out)) => StrictlyAscending(ilast.out.val)

\* C13: add_to_index keeps the order: when the in-memory index is strictly
\* ascending by name, byte-wise, it is so after add_to_index too, so it is
\* after any sequence of adds to an empty index or to one read from a
\* sorted file.
C13_AddKeepsOrder ==
    [][(ilast'.op = "add_to_index" /\ StrictlyAscending(my_index))
          => StrictlyAscending(my_index')]_vars
\* add_to_index has put a.b in front of a/b and behind a.
C13_Witness ==
    /\ ilast.op = "add_to_index" /\ ilast.name = sADotB /\ IsOk(ilast.out)
    /\ Len(my_index) = 3
    /\ my_index[1].name = <<"a">> /\ my_index[2].name = sADotB /\ my_index[3].name = sASlashB

(***************************************************************************)
(* The stat comparison: StatInfo == StatInfo, as add_to_index and          *)
(* is_same_as_tree use it, applied to pairs of stat tuples.                *)
(***************************************************************************)

\* Stat tuples with every combination of the four id fields and the
\* executable bit, and tuples that differ in one time or in the size.
StatBase == StatInfo(<<1, 0>>, <<2, 0>>, 8, UnixStatGet)
StatPool ==
    {StatInfo(<<1, 0>>, <<2, 0>>, 8, UnixStat(dev, ino, uid, gid, x)) :
        dev \in {0, 5, 6}, ino \in {0, 7}, uid \in {0, 1}, gid \in {0, 3},
        x \in BOOLEAN}
      \cup {[StatBase EXCEPT !.ctime = <<3, 0>>], [StatBase EXCEPT !.ctime = <<1, 4>>],
            [StatBase EXCEPT !.mtime = <<3, 0>>], [StatBase EXCEPT !.mtime = <<2, 4>>],
            [StatBase EXCEPT !.size = 9]}

InitStat ==
    /\ statArgs \in [l : StatPool, r : StatPool]
    /\ statOut = None
    /\ RepoIdle /\ CodecIdle /\ TreeIdle /\ IndexIdle
    /\ DiffIdle /\ RefnameIdle /\ IdIdle /\ MoreIdle

\* statArgs.l == statArgs.r
CompareStat ==
    /\ statOut' = Ok(StatInfoEq(statArgs.l, statArgs.r))
    /\ UNCHANGED <<statArgs, repoVars, codecVars, treeVars, indexVars,
                   diffVars, refnameVars, idVars, moreVars>>

NextStat == CompareStat

SpecStat == InitStat /\ [][NextStat]_vars

\* The rule for one of dev, ino, uid and gid: equal, or zero on a side.
FieldAgrees(x, y) == x = y \/ x = 0 \/ y = 0

\* C14: two stat tuples compare equal exactly when mtime, ctime and size
\* match, each of dev, ino, uid and gid is equal or zero on at least one
\* side, and the executable bit matches; and the answer is the same with
\* the two arguments swapped.
C14_StatEqualityRule ==
    statOut # None =>
        LET a == statArgs.l
            b == statArgs.r
        IN  /\ statOut.val
                  = (/\ a.mtime = b.mtime /\ a.ctime = b.ctime /\ a.size = b.size
                     /\ FieldAgrees(a.unix_stat.dev, b.unix_stat.dev)
                     /\ FieldAgrees(a.unix_stat.ino, b.unix_stat.ino)
                     /\ FieldAgrees(a.unix_stat.uid, b.unix_stat.uid)
                     /\ FieldAgrees(a.unix_stat.gid, b.unix_stat.gid)
                     /\ a.unix_stat.executable = b.unix_stat.executable)
            /\ statOut.val = StatInfoEq(b, a)

(***************************************************************************)
(* tree.rs: diff_file_lists.  A file list is a sequence of <<name, item>>  *)
(* pairs; lpos and rpos are the positions of lnext and rnext, which are    *)
(* None behind the end of a list.  One step is one turn of the loop.       *)
(***************************************************************************)

Different(a, b) == [kind |-> "Different", left |-> a, right |-> b]
ExtraInRight(b) == [kind |-> "ExtraInRight", right |-> b]
ExtraInLeft(a) == [kind |-> "ExtraInLeft", left |-> a]

\* The comparison with its arguments swapped.
CmpSwapped(l, r) == StrCmp(r, l)
\* A comparison that takes every two names for the same name.
CmpAlwaysEqual(l, r) == "Equal"
\* l.cmp(r)
DiffCmp(l, r) == StrCmp(l, r)

\* The names and items of the lists, and the strictly name-sorted lists.
DiffNames == {<<"a">>, sADotB, sASlashB}
DiffItems == {IdA, IdB}
MaxListLen == 3
AscendingNames(fl) ==
    \A i \in 1..(Len(fl) - 1) : StrCmp(fl[i][1], fl[i + 1][1]) = "Less"
FileLists == {fl \in SeqsUpTo(DiffNames \X DiffItems, MaxListLen) : AscendingNames(fl)}

InitDiff ==
    /\ diffL \in FileLists /\ diffR \in FileLists
    /\ lpos = 1 /\ rpos = 1
    /\ diffs = <<>>
    /\ diffDone = FALSE
    /\ RepoIdle /\ CodecIdle /\ TreeIdle /\ IndexIdle
    /\ StatIdle /\ RefnameIdle /\ IdIdle /\ MoreIdle

\* One turn of the loop of diff_file_lists.
DiffStep ==
    /\ ~diffDone
    /\ IF lpos > Len(diffL) /\ rpos > Len(diffR)
       THEN diffDone' = TRUE /\ UNCHANGED <<lpos, rpos, diffs>>
       ELSE /\ UNCHANGED diffDone
            /\ IF lpos > Len(diffL)
               THEN /\ diffs' = Append(diffs, <<diffR[rpos][1], ExtraInRight(diffR[rpos][2])>>)
                    /\ rpos' = rpos + 1 /\ UNCHANGED lpos
               ELSE IF rpos > Len(diffR)
               THEN /\ diffs' = Append(diffs, <<diffL[lpos][1], ExtraInLeft(diffL[lpos][2])>>)
                    /\ lpos' = lpos + 1 /\ UNCHANGED rpos
               ELSE LET l == diffL[lpos][1]
                        li == diffL[lpos][2]
                        r == diffR[rpos][1]
                        ri == diffR[rpos][2]
                        c == DiffCmp(l, r)
                    IN  IF c = "Equal" /\ li = ri
                        THEN lpos' = lpos + 1 /\ rpos' = rpos + 1 /\ UNCHANGED diffs
                        ELSE IF c = "Equal"
                        THEN /\ diffs' = Append(diffs, <<l, Different(li, ri)>>)
                             /\ lpos' = lpos + 1 /\ rpos' = rpos + 1
                        ELSE IF c = "Less"
                        THEN /\ diffs' = Append(diffs, <<l, ExtraInLeft(li)>>)
                             /\ lpos' = lpos + 1 /\ UNCHANGED rpos
                        ELSE /\ diffs' = Append(diffs, <<r, ExtraInRight(ri)>>)
                             /\ rpos' = rpos + 1 /\ UNCHANGED lpos
    /\ UNCHANGED <<diffL, diffR, repoVars, codecVars, treeVars, indexVars,
                   statVars, refnameVars, idVars, moreVars>>

NextDiff == DiffStep

\* The loop keeps turning until it breaks.
SpecDiff == InitDiff /\ [][NextDiff]_vars /\ WF_vars(NextDiff)

\* The output so far is strictly ascending by name, no element of an
\* input is skipped or handed out again, and at the end both inputs are
\* used up.
DiffSafe ==
    /\ AscendingNames(diffs)
    /\ lpos \in 1..(Len(diffL) + 1) /\ rpos \in 1..(Len(diffR) + 1)
    /\ \A i \in 1..Len(diffs) :
          \/ \E j \in 1..(lpos - 1) : diffL[j][1] = diffs[i][1]
          \/ \E j \in 1..(rpos - 1) : diffR[j][1] = diffs[i][1]
    /\ diffDone => (lpos = Len(diffL) + 1 /\ rpos = Len(diffR) + 1)

\* C15: for strictly name-sorted lists L and R the output of
\* diff_file_lists holds each name at most once and is ascending by name,
\* every input element is consumed exactly once, and the loop ends.
C15_DiffSortedAndEnds == []DiffSafe /\ <>diffDone
\* The diff has ended with a name on the left only, one on the right only
\* and one that differs.
C15_Witness ==
    /\ diffDone
    /\ \E i \in 1..Len(diffs) : diffs[i][2].kind = "ExtraInLeft"
    /\ \E i \in 1..Len(diffs) : diffs[i][2].kind = "ExtraInRight"
    /\ \E i \in 1..Len(diffs) : diffs[i][2].kind = "Different"

(***************************************************************************)
(* The refname validator applied to names: is_valid_refname(name,          *)
(* allow_onelevel).                                                        *)
(***************************************************************************)

\* Every name of up to MaxRefLen characters over a small alphabet, and
\* names with each of the other characters of the rules.
MaxRefLen == 4
RefAlphabet == {"a", ".", "/", "@", "{", "^"}
sALock == <<"a", ".", "l", "o", "c", "k">>
RefnamePool ==
    SeqsUpTo(RefAlphabet, MaxRefLen)
      \cup {<<"a", "/", c, "b">> :
              c \in {NUL, SOH, "\t", "\n", DEL, " ", "~", ":", "?", "*", "[", "\\",
                     "]", "}", "!", "-", "_", "A", "0", "|"}}
      \cup {sALock, sLock, sRefsHeadsMaster, sRefsHeads \o <<"/">> \o sALock,
            sALock \o <<"/", "a">>, sALock \o <<"s">>, <<"a", "/", "l", "o", "c", "k">>,
            sRefsHeads \o <<"/">>, <<"/">> \o sRefsHeads}

InitRefname ==
    /\ refArgs \in [name : RefnamePool, allow_onelevel : BOOLEAN]
    /\ refOut = None
    /\ RepoIdle /\ CodecIdle /\ TreeIdle /\ IndexIdle
    /\ StatIdle /\ DiffIdle /\ IdIdle /\ MoreIdle

\* is_valid_refname(name, allow_onelevel)
CheckRefname ==
    /\ refOut' = Ok(IsValidRefname(refArgs.name, refArgs.allow_onelevel))
    /\ UNCHANGED <<refArgs, repoVars, codecVars, treeVars, indexVars,
                   statVars, diffVars, idVars, moreVars>>

NextRefname == CheckRefname

SpecRefname == InitRefname /\ [][NextRefname]_vars

\* The /-separated components of a name: the stretches without a slash
\* that reach from the start or a slash to the end or a slash.
ComponentsOf(name) ==
    {SubSeq(name, i, j) : <<i, j>> \in
        {p \in (1..(Len(name) + 1)) \X (0..Len(name)) :
            /\ p[2] >= p[1] - 1
            /\ (p[1] = 1 \/ name[p[1] - 1] = "/")
            /\ (p[2] = Len(name) \/ name[p[2] + 1] = "/")
            /\ \A k \in p[1]..p[2] : name[k] # "/"}}
\* The listed rules, each of which rejects a name.
BadComponent(c) ==
    \/ c = <<>>
    \/ c[1] = "." \/ c[Len(c)] = "."
    \/ (Len(c) >= 5 /\ SubSeq(c, Len(c) - 4, Len(c)) = <<".", "l", "o", "c", "k">>)
    \/ \E i \in 1..(Len(c) - 1) : <<c[i], c[i + 1]>> \in {<<".", ".">>, <<"@", "{">>}
BadCharacter(ch) ==
    \/ ch \in {NUL, SOH, "\t", "\n", "\r", DEL}
    \/ ch \in {" ", "~", "^", ":", "?", "*", "[", "\\"}
SomeRuleApplies(name, allow_onelevel) ==
    \/ name = <<"@">>
    \/ \E c \in ComponentsOf(name) : BadComponent(c)
    \/ \E i \in 1..Len(name) : BadCharacter(name[i])
    \/ ((\A i \in 1..Len(name) : name[i] # "/") /\ ~allow_onelevel)

\* C16: the refname validator rejects a name exactly when one of the
\* listed rules applies (the name is @; a component is empty, starts or
\* ends with a dot, ends with .lock, or contains .. or @{; a character is
\* a control character, DEL, space, ~ ^ : ? * [ or backslash; or the name
\* has one component and one-level names are not allowed), and accepts
\* every other name.
C16_RejectsExactlyListed ==
    refOut # None =>
        (refOut.val = ~SomeRuleApplies(refArgs.name, refArgs.allow_onelevel))
\* refs/heads/a.lock has been rejected, and a.locks/... has not.
C16_Witness ==
    /\ refOut = Ok(FALSE)
    /\ refArgs.name = sRefsHeads \o <<"/">> \o sALock

(***************************************************************************)
(* Id::from applied to texts of about 40 characters.                       *)
(***************************************************************************)

\* Texts made of the first 36 to 40 digits of an Id, in lower or upper
\* case, and up to MaxHexTail more characters.
MaxHexTail == 2
IdUpper == Rep(<<"A", "B">>, 20)
HexHeads == {Take(id, n) : id \in {IdA, IdD, IdUpper}, n \in 36..40}
HexTails == SeqsUpTo({"0", "f", "g", "\n"}, MaxHexTail)
HexTexts == {h \o t : h \in HexHeads, t \in HexTails}

InitId ==
    /\ hexArg \in HexTexts
    /\ hexOut = None
    /\ RepoIdle /\ CodecIdle /\ TreeIdle /\ IndexIdle
    /\ StatIdle /\ DiffIdle /\ RefnameIdle /\ MoreIdle

\* Id::from(hexArg)
IdFromText ==
    /\ hexOut' = IdFrom(hexArg)
    /\ UNCHANGED <<hexArg, repoVars, codecVars, treeVars, indexVars,
                   statVars, diffVars, refnameVars, moreVars>>

NextId == IdFromText

SpecId == InitId /\ [][NextId]_vars

\* C20: a text is accepted as an Id exactly when it consists of 40 hex
\* characters; a text of any other length, 39 or 41 characters say, is
\* rejected.
C20_IdIsFortyHexDigits ==
    hexOut # None =>
        (IsOk(hexOut) <=> (Len(hexArg) = 40 /\ \A i \in 1..Len(hexArg) : IsHexDigit(hexArg[i])))

(***************************************************************************)
(* follow_symlink_refs on a .git directory that holds symbolic links.     *)
(* linkfs maps a .git-relative path to a regular file or to a symbolic    *)
(* link and its target text.  The function reads a target as a            *)
(* .git-relative ref, while the operating system, which Path::exists asks,*)
(* resolves it relative to the directory that holds the link and gives up *)
(* after MaxOsHops links.                                                  *)
(***************************************************************************)
MAX_DEPTH == 16
MaxOsHops == 40
MaxChain == 18

RegularFile == [kind |-> "file"]
SymLink(t) == [kind |-> "link", target |-> t]

\* The path the operating system continues with at a link.
OsTarget(q, t) == JoinAll(Components(Parent(q)) \o Components(t))
\* Path::exists: follows links, false for a dangling link or a link loop.
RECURSIVE OsExists(_, _, _)
OsExists(q, fs, n) ==
    IF q \notin DOMAIN fs THEN FALSE
    ELSE IF fs[q].kind = "file" THEN TRUE
    ELSE IF n = 0 THEN FALSE
    ELSE OsExists(OsTarget(q, fs[q].target), fs, n - 1)
\* symlink_metadata().file_type().is_symlink()
IsSymlink(q, fs) == q \in DOMAIN fs /\ fs[q].kind = "link"

\* The loop of follow_symlink_refs from its iteration `depth` on.
RECURSIVE FollowLoop(_, _, _)
FollowLoop(path, depth, fs) ==
    IF depth >= MAX_DEPTH THEN Err("DepthExceeded")
    ELSE IF ~IsValidRefname(ToGitPath(path), depth < 1) THEN Err("InvalidSymlinkRef")
    ELSE IF ~OsExists(FsPath(path), fs, MaxOsHops) THEN Ok(path)
    ELSE IF ~IsSymlink(FsPath(path), fs) THEN Ok(path)
    ELSE FollowLoop(fs[FsPath(path)].target, depth + 1, fs)
FollowSymlinkRefsIn(p, fs) == FollowLoop(p, 0, fs)

Letters ==
    <<"a", "b", "c", "d", "e", "f", "g", "h", "i", "j", "k", "l", "m",
      "n", "o", "p", "q", "r", "s", "t", "u", "v", "w", "x", "y", "z">>
\* The k-th ref of a chain: refs/heads/a, refs/heads/b, ...
LinkName(k) == Join(sRefsHeads, <<Letters[k + 1]>>)
\* Where the operating system looks for the target of a link in refs/heads.
Shadow(k) == Join(sRefsHeads, LinkName(k))
sLOOP == <<"L", "O", "O", "P">>

\* LinkName(0) -> LinkName(1) -> ... -> LinkName(n), the last one a regular
\* file or absent; with `shadow` the target of every link also exists where
\* the operating system looks for it.
ChainImage(n, end, shadow) ==
    [q \in {LinkName(i) : i \in 0..(n - 1)}
           \cup (IF end = "file" THEN {LinkName(n)} ELSE {})
           \cup (IF shadow THEN {Shadow(i) : i \in 1..n} ELSE {})
       |-> IF \E i \in 0..(n - 1) : q = LinkName(i)
           THEN SymLink(LinkName(1 + CHOOSE i \in 0..(n - 1) : q = LinkName(i)))
           ELSE RegularFile]
\* .git/LOOP -> LOOP, a link to itself.
SelfLoopImage == [q \in {sLOOP} |-> SymLink(sLOOP)]
\* .git/HEAD -> refs/heads/a, the layout of old git versions.
HeadLinkImage(end) ==
    [q \in {sHEAD} \cup (IF end = "file" THEN {LinkName(0)} ELSE {})
       |-> IF q = sHEAD THEN SymLink(LinkName(0)) ELSE RegularFile]
\* refs/heads/a -> refs/heads/b -> refs/heads/a, each target present where
\* the operating system looks for it.
TwoCycleImage ==
    [q \in {LinkName(0), LinkName(1), Shadow(0), Shadow(1)}
       |-> IF q = LinkName(0) THEN SymLink(LinkName(1))
           ELSE IF q = LinkName(1) THEN SymLink(LinkName(0))
           ELSE RegularFile]
LinkImages ==
    {ChainImage(n, end, shadow) :
        n \in 0..MaxChain, end \in {"file", "absent"}, shadow \in BOOLEAN}
      \cup {SelfLoopImage, TwoCycleImage, HeadLinkImage("file"), HeadLinkImage("absent")}
LinkArgs == {LinkName(k) : k \in 0..MaxChain} \cup {sLOOP, sHEAD}

InitLink ==
    /\ linkfs \in LinkImages
    /\ linkArg \in LinkArgs
    /\ linkOut = None
    /\ RepoIdle /\ CodecIdle /\ TreeIdle /\ IndexIdle
    /\ StatIdle /\ DiffIdle /\ RefnameIdle /\ IdIdle /\ EntIdle /\ LoadIdle

\* follow_symlink_refs(p, dotgit)
FollowLinks ==
    /\ linkOut = None
    /\ linkOut' = FollowSymlinkRefsIn(linkArg, linkfs)
    /\ UNCHANGED <<linkfs, linkArg, repoVars, codecVars, treeVars, indexVars,
                   statVars, diffVars, refnameVars, idVars, entVars, loadVars>>

NextLink == FollowLinks

SpecLink == InitLink /\ [][NextLink]_vars

\* The number of links on the chain that starts at p, every target read as
\* a .git-relative ref; counting stops after `fuel` links.
RECURSIVE LinkHops(_, _, _)
LinkHops(p, fs, fuel) ==
    IF fuel = 0 \/ ~IsSymlink(FsPath(p), fs) THEN 0
    ELSE 1 + LinkHops(fs[FsPath(p)].target, fs, fuel - 1)
\* Every ref on the chain is a valid refname where the follower meets it.
RECURSIVE ChainValid(_, _, _, _)
ChainValid(p, fs, depth, fuel) ==
    /\ IsValidRefname(ToGitPath(p), depth < 1)
    /\ (fuel > 0 /\ IsSymlink(FsPath(p), fs))
          => ChainValid(fs[FsPath(p)].target, fs, depth + 1, fuel - 1)

\* C22: following symlink refs succeeds for every chain of at most 16 hops
\* that ends at a regular file or at a valid ref that does not exist, and
\* fails with DepthExceeded exactly when the chain has more than 16 hops,
\* a cycle of links included.
C22_DepthExceededAboveSixteenHops ==
    linkOut # None =>
        /\ (LinkHops(linkArg, linkfs, MAX_DEPTH + 1) <= MAX_DEPTH
              /\ ChainValid(linkArg, linkfs, 0, MAX_DEPTH + 1)) => IsOk(linkOut)
        /\ linkOut = Err("DepthExceeded")
              <=> LinkHops(linkArg, linkfs, MAX_DEPTH + 1) > MAX_DEPTH

\* A path of the index is a file and also a directory on the way to
\* another path of the index.
IsDirectoryOf(a, b) == Len(a) < Len(b) /\ StartsWith(b, a \o <<"/">>)
HasCollision(idx) ==
    \E i \in 1..Len(idx), j \in 1..Len(idx) : IsDirectoryOf(idx[i].name, idx[j].name)

\* C23: when the composition tree is built, inserting a file below a path
\* component that is already a file, or at a name that is already a
\* directory, is reported as an error: the directory is never silently
\* replaced and the program never aborts.
C23_CollisionIsAnError ==
    (last.op = "save_subtree" /\ HasCollision(index))
        => last.out # Panic /\ ~IsOk(last.out)

\* The number of SubTree nodes of a composition tree, its root included.
RECURSIVE CountSubTrees(_)
RECURSIVE CountBelow(_, _)
CountBelow(st, keys) ==
    IF keys = <<>> THEN 0
    ELSE (IF st[Head(keys)].kind = "SubTree" THEN CountSubTrees(st[Head(keys)].st) ELSE 0)
           + CountBelow(st, Tail(keys))
CountSubTrees(st) == 1 + CountBelow(st, SortedKeys(DOMAIN st))
TreeId(t) == PrepareStore(t).id
\* The k-th Tree stored names only Trees that were stored before it.
ChildrenStoredBefore(k) ==
    \A i \in 1..Len(emitted.trees[k].files) :
        FileIsDir(emitted.trees[k].files[i])
            => \E j \in 1..(k - 1) : TreeId(emitted.trees[j]) = emitted.trees[k].files[i].id
RootTree == emitted.trees[Len(emitted.trees)]

\* C24: flattening an unflattened composition tree stores one Tree object
\* for every SubTree node, each after the Trees of the SubTrees inside it,
\* leaves no SubTree variant inside the root, and returns the Id of the
\* Tree of the root, whose entries are the names of the root.
C24_FlattenStoresBottomUp ==
    (last.op = "save_subtree" /\ emitted.kind = "Done" /\ IsOk(last.out))
        => /\ Len(emitted.trees) = CountSubTrees(IndexToTree(index).val)
           /\ \A k \in 1..Len(emitted.trees) :
                 /\ ChildrenStoredBefore(k)
                 /\ PathForObject(TreeId(emitted.trees[k])) \in DOMAIN files
           /\ \A name \in DOMAIN emitted.st : emitted.st[name].kind # "SubTree"
           /\ DOMAIN emitted.st = DOMAIN IndexToTree(index).val
           /\ {RootTree.files[i].name : i \in 1..Len(RootTree.files)} = DOMAIN emitted.st
           /\ last.out = Ok(TreeId(RootTree))
\* Two directories with equal content have been flattened: a Tree was
\* stored for each of them, and one for the root.
C24_Witness ==
    /\ last.op = "save_subtree" /\ emitted.kind = "Done" /\ IsOk(last.out)
    /\ Len(emitted.trees) >= 3
    /\ \E j, k \in 1..Len(emitted.trees) : j < k /\ emitted.trees[j] = emitted.trees[k]

\* The entry of the index for filename carries the stat of the file as it
\* is in the working tree now.
StatUnchanged(ix, filename, wt) ==
    /\ filename \in DOMAIN wt
    /\ \E i \in 1..Len(ix) :
          /\ ix[i].name = filename
          /\ MetaStatinfo(ix[i].meta) = StatInfoGet(wt, filename).val
StoredId(ix, filename) == ix[CHOOSE i \in 1..Len(ix) : ix[i].name = filename].meta.id

\* The frame of the fast path: the stored Id comes back, and neither the
\* index nor the directory changes.
NothingChanges ==
    /\ ilast'.out = Ok(StoredId(my_index, ilast'.name))
    /\ my_index' = my_index
    /\ files' = files
    /\ dirs' = dirs

NamesOf(fl) == {fl[i][1] : i \in 1..Len(fl)}
ItemOf(fl, name) == fl[CHOOSE i \in 1..Len(fl) : fl[i][1] = name][2]
\* The differences between the two lists, name by name.
ExpectedDiffs ==
    {<<n, ExtraInLeft(ItemOf(diffL, n))>> : n \in NamesOf(diffL) \ NamesOf(diffR)}
      \cup {<<n, ExtraInRight(ItemOf(diffR, n))>> : n \in NamesOf(diffR) \ NamesOf(diffL)}
      \cup {<<n, Different(ItemOf(diffL, n), ItemOf(diffR, n))>> :
              n \in {m \in NamesOf(diffL) \cap NamesOf(diffR) :
                        ItemOf(diffL, m) # ItemOf(diffR, m)}}

\* C26: for strictly name-sorted lists L and R, diff_file_lists emits
\* exactly ExtraInLeft for every name only in L, ExtraInRight for every
\* name only in R and Different for every name in both whose items differ,
\* each once, and nothing for a name whose items are equal; the diff of a
\* list with itself is empty.
C26_DiffEmitsExactlyTheDifferences ==
    diffDone =>
        /\ {diffs[i] : i \in 1..Len(diffs)} = ExpectedDiffs
        /\ Len(diffs) = Cardinality(ExpectedDiffs)
        /\ diffL = diffR => diffs = <<>>
\* The diff has ended on lists that share a name with equal items, which
\* is not in the output, and a name with different items, which is.
C26_Witness ==
    /\ diffDone
    /\ \E n \in NamesOf(diffL) \cap NamesOf(diffR) :
          /\ ItemOf(diffL, n) = ItemOf(diffR, n)
          /\ \A i \in 1..Len(diffs) : diffs[i][1] # n
    /\ \E i \in 1..Len(diffs) : diffs[i][2].kind = "Different"
    /\ \E i \in 1..Len(diffs) : diffs[i][2].kind = "ExtraInRight"

(***************************************************************************)
(* One index entry from the file to the bytes: IndexMeta::new_from_file   *)
(* makes the entry of a file of the working tree, and write_to_file       *)
(* writes the entry's record, name and padding.                            *)
(***************************************************************************)
MaxNameLen == 64
NameOfLen(n) == [i \in 1..n |-> "a"]
\* Short names, and names around the largest length the flags can hold.
EntryNames ==
    {NameOfLen(n) : n \in 1..MaxNameLen}
      \cup {NameOfLen(n) : n \in {4094, 4095, 4096, 4097}}
EntryWorkTree(name) == (name :> WorkFile(BlobA.content, <<1600000000, 5>>))

InitEntry ==
    /\ entName \in EntryNames
    /\ entMeta = None
    /\ entBytes = None
    /\ RepoIdle /\ CodecIdle /\ TreeIdle /\ IndexIdle
    /\ StatIdle /\ DiffIdle /\ RefnameIdle /\ IdIdle /\ LinkIdle /\ LoadIdle

\* IndexMeta::new_from_file(filename, repo), r being its outcome.
MakeEntryDone(r) ==
    /\ entMeta' = r.out
    /\ files' = r.files
    /\ dirs' = r.dirs
    /\ UNCHANGED <<entName, entBytes, last, stored, codecVars, treeVars, indexVars,
                   statVars, diffVars, refnameVars, idVars, linkVars, loadVars>>
MakeEntry ==
    /\ entMeta = None
    /\ MakeEntryDone(NewFromFile(entName, EntryWorkTree(entName), files, dirs))

\* The body of the loop of write_to_file for the entry.
WriteEntry ==
    /\ IsOk(entMeta)
    /\ entBytes = None
    /\ entBytes' = EntryBytes(IndexEntry(entName, entMeta.val))
    /\ UNCHANGED <<entName, entMeta, repoVars, codecVars, treeVars, indexVars,
                   statVars, diffVars, refnameVars, idVars, linkVars, loadVars>>

NextEntry == MakeEntry \/ WriteEntry

SpecEntry == InitEntry /\ [][NextEntry]_vars

\* The bytes written after the fixed record and the name.
PaddingOf(bytes, name) == Drop(bytes, SizeOfIndexMeta + Len(name))

\* C27: the bytes written for one index entry (the fixed record of 62
\* bytes, the name, NUL padding) total 62 + L rounded up to the next
\* multiple of 8, a full 8 bytes of padding being added when 62 + L is a
\* multiple of 8: the padding is 1 to 8 NUL bytes and the length of the
\* whole is a multiple of 8.
C27_RecordPaddedToEight ==
    entBytes # None =>
        /\ Len(entBytes) % 8 = 0
        /\ Len(entBytes) > SizeOfIndexMeta + Len(entName)
        /\ Len(entBytes) <= SizeOfIndexMeta + Len(entName) + 8
        /\ Take(entBytes, SizeOfIndexMeta) = MetaCast(entMeta.val)
        /\ SubSeq(entBytes, SizeOfIndexMeta + 1, SizeOfIndexMeta + Len(entName))
              = AsBytes(entName)
        /\ \A i \in 1..Len(PaddingOf(entBytes, entName)) :
              PaddingOf(entBytes, entName)[i] = ByteTok(0)
        /\ ((SizeOfIndexMeta + Len(entName)) % 8 = 0
              => Len(PaddingOf(entBytes, entName)) = 8)
\* An entry whose record and name end on the boundary was written with
\* eight bytes of padding.
C27_Witness ==
    /\ entBytes # None
    /\ (SizeOfIndexMeta + Len(entName)) % 8 = 0
    /\ Len(entBytes) = SizeOfIndexMeta + Len(entName) + 8

\* C28: the low 12 bits of the flags of an entry that add has made hold
\* the length of the name when it is below 0xFFF, and 0xFFF for every
\* longer name.
C28_FlagsSaturateAtFFF ==
    IsOk(entMeta) =>
        FromU16be(entMeta.val.flags) % 4096
            = (IF Len(entName) < 4095 THEN Len(entName) ELSE 4095)

(***************************************************************************)
(* Tree::load applied to payloads that are cut short or damaged.           *)
(***************************************************************************)
LoadTrees ==
    {Tree(<<[mode |-> ModeBlob, name |-> <<"a">>, id |-> IdA],
            [mode |-> ModeTree, name |-> <<"d">>, id |-> IdB]>>),
     Tree(<<[mode |-> ModeTree, name |-> sADotB, id |-> IdC],
            [mode |-> ModeBlob, name |-> <<"b">>, id |-> IdA]>>)}
\* The payload with one byte replaced.
Damaged(p, i, b) == [p EXCEPT ![i] = b]
\* Every prefix of the payload of a Tree, and the payloads with a byte of
\* the first mode that is no octal digit or no space.
LoadPayloads ==
    {Take(TreeEncode(t), k) : t \in LoadTrees, k \in 0..(2 * (IdLen + 12))}
      \cup {Damaged(TreeEncode(t), i, b) : t \in LoadTrees, i \in 1..6, b \in {"8", "x", NUL}}

InitLoad ==
    /\ loadArg \in LoadPayloads
    /\ loadOut = None
    /\ RepoIdle /\ CodecIdle /\ TreeIdle /\ IndexIdle
    /\ StatIdle /\ DiffIdle /\ RefnameIdle /\ IdIdle /\ LinkIdle /\ EntIdle

\* Tree::load(content)
LoadTree ==
    /\ loadOut = None
    /\ loadOut' = TreeLoad(loadArg)
    /\ UNCHANGED <<loadArg, repoVars, codecVars, treeVars, indexVars,
                   statVars, diffVars, refnameVars, idVars, linkVars, entVars>>

NextLoad == LoadTree

SpecLoad == InitLoad /\ [][NextLoad]_vars

\* The payload is the encoding of a Tree: whole records, one after another.
IsWholePayload(p) ==
    \E t \in LoadTrees :
        \E n \in 0..Len(t.files) : p = TreeEncode(Tree(Take(t.files, n)))

\* C29: decoding a Tree payload that is cut short (fewer than 20 bytes
\* after the NUL of an entry, say) or has a damaged field returns a
\* decode error: the program is not aborted and no Tree is returned.
C29_TruncatedTreeIsAnError ==
    (loadOut # None /\ ~IsWholePayload(loadArg)) => loadOut.kind = "Err"

\* The (path, id) pairs of an index, in its order.
IndexPairs(idx) == [i \in 1..Len(idx) |-> <<idx[i].name, idx[i].id>>]

\* C30: for a sorted index without a path that is both a file and a
\* directory, the walk of the root Tree that the composer made of the
\* index yields the (path, id) pairs of the index, in the order of the
\* index; so the list status hands to the diff is sorted by name.
C30_WalkYieldsTheIndex ==
    (filelist # None /\ ~HasCollision(index)) => filelist = Ok(IndexPairs(index))

=============================================================================
